---- MODULE Spec2Model ----
(***************************************************************************)
(* frankenphp-cli: the site provisioning orchestrator (core/site.py) and   *)
(* its collaborators (utils/state.py, utils/validators.py, core/caddy.py,  *)
(* core/database.py, core/user.py, core/wordpress.py) as a state machine.  *)
(*                                                                         *)
(* Python strings that the code inspects (domains, identifiers, paths) are *)
(* sequences of one-character strings, so that lower(), replace(), split() *)
(* and the regular expressions are computed, not assumed.                  *)
(***************************************************************************)
EXTENDS Integers, Sequences, FiniteSets, TLC

----
\* Bounds of the model.

\* Calls (add_site, delete_site, site_info) made in one run.
MaxCalls == 3

\* External operations (mkdir, useradd, SQL, reload, file write ...) that the
\* environment lets fail in one run.
MaxFaults == 2

----
\* Program constants.

\* site.py:27  primary_domain.replace(".", "_")[:64]
DbNameMax == 64

\* site.py:88  primary_domain.split(".")[0][:32]
UserNameMax == 32

\* validators.py:19  len(domain) > 253
DomainMax == 253

\* validators.py:12  IDENTIFIER_REGEX {0,63} and validators.py:43 len(name) > 64
IdentTailMax == 63

\* config.py:33  DOMAIN_REGEX label: [a-zA-Z0-9-]{0,61} between two alphanumerics
LabelInnerMax == 61

\* state.py:12  DEFAULT_STATE["version"]
StateVersion == 1

----
\* Characters and strings.

LowerLetters == {"a", "b", "c", "o", "w"}

UpperLetters == {"A", "B", "C", "O", "W"}

Digits == {"1"}

Letters == LowerLetters \cup UpperLetters

AlNum == Letters \cup Digits

\* str.lower() on one character
LowerChar(c) ==
    CASE c = "A" -> "a"
      [] c = "B" -> "b"
      [] c = "C" -> "c"
      [] c = "O" -> "o"
      [] c = "W" -> "w"
      [] OTHER -> c

\* str.lower()
Lower(s) == [i \in 1..Len(s) |-> LowerChar(s[i])]

\* The whitespace of the strings modelled here
Whitespace == {" "}

\* str.strip(): without the whitespace at both ends
Strip(s) ==
    LET inked == {i \in 1..Len(s) : s[i] \notin Whitespace}
    IN  IF inked = {} THEN <<>>
        ELSE SubSeq(s, CHOOSE i \in inked : \A j \in inked : i <= j,
                       CHOOSE i \in inked : \A j \in inked : i >= j)

\* s[:n]
Take(s, n) == IF Len(s) <= n THEN s ELSE SubSeq(s, 1, n)

\* s.replace(".", "_")
ReplaceDots(s) == [i \in 1..Len(s) |-> IF s[i] = "." THEN "_" ELSE s[i]]

\* index of the first "." in s, or Len(s) + 1
RECURSIVE FirstDot(_, _)
FirstDot(s, i) ==
    IF i > Len(s) THEN i
    ELSE IF s[i] = "." THEN i
    ELSE FirstDot(s, i + 1)

\* s.split(".")
RECURSIVE SplitDots(_)
SplitDots(s) ==
    LET k == FirstDot(s, 1)
    IN  IF k > Len(s) THEN <<s>>
        ELSE <<SubSeq(s, 1, k - 1)>> \o SplitDots(SubSeq(s, k + 1, Len(s)))

AllIn(s, set) == \A i \in 1..Len(s) : s[i] \in set

----
\* utils/validators.py

\* One label of DOMAIN_REGEX: [a-zA-Z0-9](?:[a-zA-Z0-9-]{0,61}[a-zA-Z0-9])?
LabelOk(l) ==
    /\ Len(l) >= 1
    /\ Len(l) <= LabelInnerMax + 2
    /\ l[1] \in AlNum
    /\ l[Len(l)] \in AlNum
    /\ AllIn(l, AlNum \cup {"-"})

\* DOMAIN_PATTERN.fullmatch: (?:label\.)+[a-zA-Z]{2,}
DomainPatternMatch(s) ==
    LET parts == SplitDots(s)
        n == Len(parts)
    IN  /\ n >= 2
        /\ \A i \in 1..(n - 1) : LabelOk(parts[i])
        /\ Len(parts[n]) >= 2
        /\ AllIn(parts[n], Letters)

\* validate_domain(domain)
validate_domain(domain) ==
    LET d == Lower(Strip(domain))
    IN  /\ Len(d) > 0
        /\ Len(d) <= DomainMax
        /\ DomainPatternMatch(d)

\* The loop of validate_domains over aliases[i..], with the set `seen`.
RECURSIVE ValidateAliases(_, _, _)
ValidateAliases(aliases, i, seen) ==
    IF i > Len(aliases) THEN [ok |-> TRUE, err |-> "", at |-> 0]
    ELSE IF ~validate_domain(aliases[i])
         THEN [ok |-> FALSE, err |-> "Invalid alias", at |-> i]
    ELSE IF Lower(aliases[i]) \in seen
         THEN [ok |-> FALSE, err |-> "Duplicate domain", at |-> i]
    ELSE ValidateAliases(aliases, i + 1, seen \cup {Lower(aliases[i])})

\* A validate_domains whose set `seen` starts empty.
validate_domains_PrimaryUnseen(primary, aliases) ==
    IF ~validate_domain(primary)
    THEN [ok |-> FALSE, err |-> "Invalid primary domain", at |-> 0]
    ELSE ValidateAliases(aliases, 1, {})

\* validate_domains(primary, aliases) -> (ok, err); `at` is the position of the
\* offending entry (0: the primary or none).
validate_domains(primary, aliases) ==
    IF ~validate_domain(primary)
    THEN [ok |-> FALSE, err |-> "Invalid primary domain", at |-> 0]
    ELSE ValidateAliases(aliases, 1, {Lower(primary)})

\* validate_identifier(name): ^[a-zA-Z][a-zA-Z0-9_]{0,63}$ and len <= 64
validate_identifier(name) ==
    /\ Len(name) > 0
    /\ Len(name) <= IdentTailMax + 1
    /\ name[1] \in Letters
    /\ AllIn(name, AlNum \cup {"_"})

----
\* Python values.

\* None where a dict (a site record) is expected
None == [py_none |-> TRUE]

\* None where the application tag (a str) is expected
NoneStr == "None"

\* The empty dict
EmptyMap == [k \in {} |-> k]

\* dict with d[k] = v
MapSet(m, k, v) == [x \in (DOMAIN m) \cup {k} |-> IF x = k THEN v ELSE m[x]]

\* dict after del d[k]
MapDel(m, k) == [x \in (DOMAIN m) \ {k} |-> m[x]]

\* bool(record) for an Optional[dict]: None and {} are falsy
Truthy(rec) == rec # None /\ DOMAIN rec # {}

\* rec.get(key) for a str-valued key: the value, or "" (falsy, like None)
GetStr(rec, key) == IF key \in DOMAIN rec THEN rec[key] ELSE <<>>

----
\* json.dump / json.load of the state document (utils/state.py).
\* A JSON value is tagged with its JSON type.

JNull == <<"null">>

JString(s) == <<"string", s>>

JArray(xs) == <<"array", xs>>

\* json.dump of one value of a site record, by the Python type the field holds:
\* app is None or a str, aliases is a list of str, every other field is a str.
JsonEncodeField(key, v) ==
    CASE key = "app" -> IF v = NoneStr THEN JNull ELSE JString(v)
      [] key = "aliases" -> JArray([i \in 1..Len(v) |-> JString(v[i])])
      [] OTHER -> JString(v)

\* json.load of one value of a site record
JsonDecodeField(key, j) ==
    CASE j[1] = "null" -> NoneStr
      [] j[1] = "array" -> [i \in 1..Len(j[2]) |-> j[2][i][2]]
      [] OTHER -> j[2]

JsonEncodeRecord(r) == [k \in DOMAIN r |-> JsonEncodeField(k, r[k])]

JsonDecodeRecord(o) == [k \in DOMAIN o |-> JsonDecodeField(k, o[k])]

\* json.dump(state): {"sites": {domain: record}, "version": 1}
JsonDump(sites, version) ==
    [sites |-> [d \in DOMAIN sites |-> JsonEncodeRecord(sites[d])],
     version |-> version]

\* json.load(f)["sites"]
JsonLoadSites(doc) == [d \in DOMAIN doc.sites |-> JsonDecodeRecord(doc.sites[d])]

\* The state file: absent, a complete JSON document, or a partial one left by a
\* write that failed half way (not parseable).
NoDoc == [sites |-> EmptyMap, version |-> 0]

AbsentFile == [kind |-> "absent", doc |-> NoDoc]

PartialFile == [kind |-> "partial", doc |-> NoDoc]

JsonFile(sites, version) == [kind |-> "json", doc |-> JsonDump(sites, version)]

\* Contents of the state file that save_state never writes. An empty file and
\* a file of bytes that are no UTF-8 text:
EmptyFile == [kind |-> "empty", doc |-> NoDoc]

BinaryFile == [kind |-> "binary", doc |-> NoDoc]

\* A JSON document that is no object: null, true, 0, "s", [].
JsonValueFile(j) == [kind |-> "json_value", doc |-> NoDoc, value |-> j]

\* A JSON object whose "sites" is missing or no object. `sites` is the JSON
\* value under that key (<<>> when the key is missing), `version` the number
\* under "version" (0 when the key is missing).
JsonObjectFile(sites, version) ==
    [kind |-> "json_object", doc |-> NoDoc, sites |-> sites, version |-> version]

\* What load_state gives when it raises.
LoadRaised(type) == [raised |-> type]

----
\* utils/state.py

\* load_state(): the document returned. `shared` says that its "sites" is the
\* dict of the module-level DEFAULT_STATE (DEFAULT_STATE.copy() is shallow);
\* otherwise `sites` is a dict of this document alone.
\* A file that is absent, empty or cut short gives DEFAULT_STATE.copy() (lines
\* 23, 31-33); in an object without a "sites" object line 29 sets "sites" to {}
\* and leaves the other keys as they are; data.get on a JSON value that is no
\* object raises AttributeError, and reading bytes that are no UTF-8 raises
\* UnicodeDecodeError, neither of which line 31 catches.
load_state(file) ==
    CASE file.kind = "json" ->
             [shared |-> FALSE, sites |-> JsonLoadSites(file.doc),
              version |-> file.doc.version]
      [] file.kind = "json_object" ->
             [shared |-> FALSE, sites |-> EmptyMap, version |-> file.version]
      [] file.kind = "json_value" -> LoadRaised("AttributeError")
      [] file.kind = "binary" -> LoadRaised("UnicodeDecodeError")
      [] OTHER -> [shared |-> TRUE, sites |-> EmptyMap, version |-> StateVersion]

\* state["sites"] as the holder of the document sees it
SitesOf(st, dflt) == IF st.shared THEN dflt ELSE st.sites

\* get_site_state(state, primary_domain)
get_site_state(sites, primary_domain) ==
    IF primary_domain \in DOMAIN sites THEN sites[primary_domain] ELSE None

\* A set that replaces the whole "sites" dict.
set_site_state_Only(sites, primary_domain, site_data) ==
    MapSet(EmptyMap, primary_domain, site_data)

\* set_site_state(state, primary_domain, site_data): the new state["sites"]
set_site_state(sites, primary_domain, site_data) == MapSet(sites, primary_domain, site_data)

\* remove_site_state(state, primary_domain): the new state["sites"]
remove_site_state(sites, primary_domain) == MapDel(sites, primary_domain)

----
\* Inputs.

ACo == <<"a", ".", "c", "o">>

ACoUpper == <<"A", ".", "c", "o">>

\* A valid domain from which no valid identifier derives ("1_co", "1").
OneCo == <<"1", ".", "c", "o">>

\* Not a domain: no dot.
Bare == <<"a">>

\* The argument lists add_site is called with: the good domain with every
\* combination of the options; the domain whose identifiers are invalid; a
\* primary that is no domain; an alias that repeats the primary in another case.
AddInputs ==
    {[primary |-> ACo, aliases |-> <<>>, app |-> a, create_user |-> u,
      force |-> f, dry_run |-> d] :
        a \in {NoneStr, "wordpress"}, u \in BOOLEAN, f \in BOOLEAN, d \in BOOLEAN}
    \cup
    {[primary |-> OneCo, aliases |-> <<>>, app |-> NoneStr, create_user |-> u,
      force |-> FALSE, dry_run |-> d] : u \in BOOLEAN, d \in BOOLEAN}
    \cup
    {[primary |-> x[1], aliases |-> x[2], app |-> NoneStr, create_user |-> FALSE,
      force |-> f, dry_run |-> FALSE] :
        x \in {<<Bare, <<>> >>, <<ACo, <<ACoUpper>> >>}, f \in BOOLEAN}

\* The argument lists delete_site is called with.
DelInputs == {[primary |-> x, dry_run |-> d] : x \in {ACo, OneCo}, d \in BOOLEAN}

\* The domains site_info is called with.
InfoInputs == {ACo}

\* The one process of the sequential specification.
Procs == {1}

----
\* core/site.py, core/caddy.py: names derived from the primary domain.

\* config.WEB_ROOT
WebRoot == <<"/">>

\* _site_path(primary_domain)
site_path(primary_domain) == WebRoot \o primary_domain

\* _db_name_from_domain(primary_domain)
db_name_from_domain(primary_domain) == Take(ReplaceDots(primary_domain), DbNameMax)

\* uname = primary_domain.split(".")[0][:32]
user_name_from_domain(primary_domain) == Take(SplitDots(primary_domain)[1], UserNameMax)

\* get_site_config_path(primary_domain): the file name without directory and ".conf"
get_site_config_path(primary_domain) == ReplaceDots(primary_domain)

\* A filter that also turns the list round.
FilterAliases_Reversed(aliases, primary_domain) ==
    LET kept == SelectSeq(aliases, LAMBDA a : a # primary_domain)
    IN  [i \in 1..Len(kept) |-> kept[Len(kept) + 1 - i]]

\* [a for a in aliases if a != primary_domain]
FilterAliases(aliases, primary_domain) ==
    SelectSeq(aliases, LAMBDA a : a # primary_domain)

\* render_caddy_config(primary_domain, aliases, web_root): the text, by the two
\* things the default template and a custom one put into it.
render_caddy_config(primary_domain, aliases, web_root) ==
    [domains_line |-> <<primary_domain>> \o FilterAliases(aliases, primary_domain),
     web_root |-> web_root]

----
VARIABLES
    dirs,          \* site directories that exist under WEB_ROOT (paths)
    osUsers,       \* OS accounts: user name -> home directory
    dbs,           \* databases that exist in the engine (names)
    dbUsers,       \* database users: name -> password
    confs,         \* proxy config files: file name -> content
    stateDir,      \* whether STATE_DIR exists
    stateFile,     \* STATE_FILE
    defaultSites,  \* per process: DEFAULT_STATE["sites"], a module-level dict
    pc,            \* per process: position in the running call
    loc,           \* per process: the running call's arguments and locals
    calls,         \* calls started so far
    faults,        \* external failures so far
    last           \* the call that returned last

worldVars == <<dirs, osUsers, dbs, dbUsers, confs, stateDir, stateFile>>

vars == <<dirs, osUsers, dbs, dbUsers, confs, stateDir, stateFile,
          defaultSites, pc, loc, calls, faults, last>>

\* What exists outside the process, as one value.
World ==
    [dirs |-> dirs, osUsers |-> osUsers, dbs |-> dbs, dbUsers |-> dbUsers,
     confs |-> confs, stateDir |-> stateDir, stateFile |-> stateFile]

EmptyWorld ==
    [dirs |-> {}, osUsers |-> EmptyMap, dbs |-> {}, dbUsers |-> EmptyMap,
     confs |-> EmptyMap, stateDir |-> FALSE, stateFile |-> AbsentFile]

NoError == [type |-> "", origin |-> ""]

NoLast == [op |-> "", primary_domain |-> <<>>, dry_run |-> FALSE, result |-> ""]

\* Where a client of utils/state.py is in a set, save, load sequence: the
\* domain and the record it set, and the other records of the document then.
NoTrip == [stage |-> "", d |-> <<>>, r |-> None, others |-> EmptyMap]

\* The locals of a call before it starts.
InitLoc ==
    [op |-> "",
     primary_domain |-> <<>>, aliases |-> <<>>, app |-> NoneStr,
     create_user |-> FALSE, force |-> FALSE, dry_run |-> FALSE,
     state |-> [shared |-> FALSE, sites |-> EmptyMap, version |-> 0],
     existing |-> None,
     steps_done |-> <<>>,
     linux_user |-> <<>>,
     db_name |-> <<>>, db_user_val |-> <<>>, db_pass_val |-> 0,
     all_aliases |-> <<>>,
     site_data |-> None,
     wp_args |-> <<>>,
     info |-> None,
     loaded |-> EmptyMap,
     failure |-> NoError,
     error |-> NoError,
     result |-> "",
     ret |-> "None",
     rb |-> 0,
     undone |-> <<>>,
     rb_failed |-> <<>>,
     log |-> <<>>,
     pre |-> EmptyWorld,
     pre_default |-> EmptyMap,
     after_delete |-> FALSE,
     trip |-> NoTrip]

Init ==
    /\ dirs = {}
    /\ osUsers = EmptyMap
    /\ dbs = {}
    /\ dbUsers = EmptyMap
    /\ confs = EmptyMap
    /\ stateDir = FALSE
    /\ stateFile = AbsentFile
    /\ defaultSites = [p \in Procs |-> EmptyMap]
    /\ pc = [p \in Procs |-> "idle"]
    /\ loc = [p \in Procs |-> InitLoc]
    /\ calls = 0
    /\ faults = 0
    /\ last = NoLast

\* The outcomes the environment may give an external operation: success, or,
\* while the fault budget lasts, one of its ways to fail.
Outcomes(failures) == {"ok"} \cup (IF faults < MaxFaults THEN failures ELSE {})

CountFault(o) == faults' = IF o = "ok" THEN faults ELSE faults + 1

----
\* Effects of the collaborators on the world, by the outcome the environment
\* gives them.

\* core/database.py create_database, the SQL part: CREATE DATABASE IF NOT
\* EXISTS, CREATE USER IF NOT EXISTS, GRANT, FLUSH. A MySQLError may come from
\* the connection, from CREATE USER or from GRANT.
CreateDbFailures == {"fail_connect", "fail_create_user", "fail_grant"}

DbsAfterCreate(o, name) == IF o = "fail_connect" THEN dbs ELSE dbs \cup {name}

DbUsersAfterCreate(o, user, password) ==
    IF o \in {"ok", "fail_grant"} /\ user \notin DOMAIN dbUsers
    THEN MapSet(dbUsers, user, password)
    ELSE dbUsers

\* core/database.py delete_database, the SQL part: DROP DATABASE IF EXISTS, DROP
\* USER IF EXISTS, FLUSH.
DropDbFailures == {"fail_connect", "fail_drop_user"}

DbsAfterDrop(o, name) == IF o = "fail_connect" THEN dbs ELSE dbs \ {name}

DbUsersAfterDrop(o, user) == IF o = "ok" THEN MapDel(dbUsers, user) ELSE dbUsers

\* The passwords that a database user, a record of the state file, a record
\* held in memory or a running call knows.
RecordPasswords(sites) ==
    {sites[d]["db_password"] : d \in {x \in DOMAIN sites : "db_password" \in DOMAIN sites[x]}}

KnownPasswords ==
    {dbUsers[u] : u \in DOMAIN dbUsers}
    \cup RecordPasswords(JsonLoadSites(stateFile.doc))
    \cup UNION {RecordPasswords(defaultSites[p]) : p \in DOMAIN loc}
    \cup UNION {RecordPasswords(loc[p].state.sites) : p \in DOMAIN loc}
    \cup {loc[p].db_pass_val : p \in DOMAIN loc}

\* core/database.py _generate_password(): 32 random characters, a value that
\* is nowhere yet; the least such number stands for it.
generate_password ==
    CHOOSE n \in 1..(Cardinality(KnownPasswords) + 1) :
        /\ n \notin KnownPasswords
        /\ \A m \in 1..(n - 1) : m \in KnownPasswords

\* core/caddy.py write_site_config: write_text, then the reload.
WriteConfFailures == {"fail_write", "fail_reload"}

\* A write that leaves a file that is already there as it is.
ConfsAfterWrite_KeepExisting(o, primary_domain, aliases, web_root) ==
    IF o = "fail_write" \/ get_site_config_path(primary_domain) \in DOMAIN confs
    THEN confs
    ELSE MapSet(confs, get_site_config_path(primary_domain),
                render_caddy_config(primary_domain, aliases, web_root))

ConfsAfterWrite(o, primary_domain, aliases, web_root) ==
    IF o = "fail_write" THEN confs
    ELSE MapSet(confs, get_site_config_path(primary_domain),
                render_caddy_config(primary_domain, aliases, web_root))

\* A removal that does not look whether the file is there.
ConfMissing_Unchecked(key) == FALSE

\* core/caddy.py remove_site_config: "if not path.exists(): return False"
ConfMissing(key) == key \notin DOMAIN confs

\* core/caddy.py remove_site_config: unlink, then the reload.
RemoveConfFailures == {"fail_unlink", "fail_reload"}

\* An unlink that clears the whole config directory.
ConfsAfterRemove_All(o, key) == IF o = "fail_unlink" THEN confs ELSE EmptyMap

ConfsAfterRemove(o, key) == IF o = "fail_unlink" THEN confs ELSE MapDel(confs, key)

\* utils/state.py save_state: open(STATE_FILE, "w") may fail, and json.dump may
\* fail after the file was truncated.
SaveFailures == {"fail_open", "fail_write"}

\* A save that keeps the records the file holds beside those it is given.
FileAfterSave_Merging(o, sites, version) ==
    CASE o = "ok" -> JsonFile(sites @@ JsonLoadSites(stateFile.doc), version)
      [] o = "fail_write" -> PartialFile
      [] OTHER -> stateFile

FileAfterSave(o, sites, version) ==
    CASE o = "ok" -> JsonFile(sites, version)
      [] o = "fail_write" -> PartialFile
      [] OTHER -> stateFile

----
\* core/site.py add_site

\* An order that commits the state before the application and the proxy config.
AddSteps_StateEarly == <<"directory", "user", "database", "state", "wordpress", "caddy">>

\* The steps of add_site's try block, in the order of the code.
AddSteps == <<"directory", "user", "database", "wordpress", "caddy", "state">>

\* Whether the call with locals l runs the step.
StepApplies(l, step) ==
    CASE step = "user" -> l.create_user
      [] step = "database" -> l.app = "wordpress" \/ ~Truthy(l.existing)
      [] step = "wordpress" -> l.app = "wordpress"
      [] OTHER -> TRUE

StepIndex(step) == CHOOSE i \in 1..Len(AddSteps) : AddSteps[i] = step

\* Where the call goes after `step` succeeded: the next step it runs, or "done"
\* ("return site_data").
NextPc(l, step) ==
    LET later == {j \in (StepIndex(step) + 1)..Len(AddSteps) : StepApplies(l, AddSteps[j])}
    IN  IF later = {} THEN "done"
        ELSE AddSteps[CHOOSE j \in later : \A k \in later : j <= k]

\* steps_done.append((step, data)) and the move to the next step.
StepDone(l, step, a, b) ==
    [l EXCEPT !.steps_done = Append(@, [name |-> step, a |-> a, b |-> b]),
              !.result = IF NextPc(l, step) = "done" THEN "returned" ELSE @]

Logged(l, entries) == [l EXCEPT !.log = @ \o entries]

\* A conflict check that lets an existing record through.
ConflictCheck_Inverted(existing, force) == Truthy(existing) /\ force

\* "if existing and not force: raise ValueError"
ConflictCheck(existing, force) == Truthy(existing) /\ ~force

\* "except Exception as e: ... if not dry_run: rollback(); raise": the locals and
\* the position after a step raised. `failure` is the exception of the step (e),
\* `error` the exception that leaves add_site.
\* An except block that rolls back in dry-run too.
RollbackRuns_DryRunToo(l) == Len(l.steps_done) > 0

\* Lines 150-151: "if not dry_run: rollback()"; the loop has something to do
\* when steps_done is not empty.
RollbackRuns(l) == ~l.dry_run /\ Len(l.steps_done) > 0

Raised(l, type, origin) ==
    LET e == [type |-> type, origin |-> origin]
    IN  IF RollbackRuns(l)
        THEN [l EXCEPT !.failure = e, !.rb = Len(l.steps_done)]
        ELSE [l EXCEPT !.failure = e, !.error = e, !.result = "raised"]

RaisedPc(l) == IF RollbackRuns(l) THEN "rollback" ELSE "done"

\* Lines 44-56: validation, load_state, the conflict check.
AddBegin(p, primary, aliases, app, create_user, force, dry_run) ==
    /\ pc[p] = "idle"
    /\ calls < MaxCalls
    /\ calls' = calls + 1
    /\ LET v == validate_domains(primary, aliases)
           st == load_state(stateFile)
           existing == get_site_state(SitesOf(st, defaultSites[p]), primary)
           l0 == [InitLoc EXCEPT !.op = "add", !.primary_domain = primary,
                                 !.aliases = aliases, !.app = app,
                                 !.create_user = create_user, !.force = force,
                                 !.dry_run = dry_run, !.pre = World,
                                 !.pre_default = defaultSites[p]]
           l1 == [l0 EXCEPT !.state = st, !.existing = existing,
                            !.loaded = SitesOf(st, defaultSites[p]),
                            !.db_name = db_name_from_domain(primary)]
       IN  IF ~v.ok
           THEN /\ loc' = [loc EXCEPT ![p] =
                        [l0 EXCEPT !.failure = [type |-> "ValueError", origin |-> v.err],
                                   !.error = [type |-> "ValueError", origin |-> v.err],
                                   !.result = "raised"]]
                /\ pc' = [pc EXCEPT ![p] = "done"]
                /\ UNCHANGED stateDir
           ELSE /\ stateDir' = TRUE
                /\ IF ConflictCheck(existing, force)
                   THEN /\ loc' = [loc EXCEPT ![p] =
                                [l1 EXCEPT !.failure = [type |-> "ValueError",
                                                        origin |-> "Site already exists"],
                                           !.error = [type |-> "ValueError",
                                                      origin |-> "Site already exists"],
                                           !.result = "raised"]]
                        /\ pc' = [pc EXCEPT ![p] = "done"]
                   ELSE /\ loc' = [loc EXCEPT ![p] = l1]
                        /\ pc' = [pc EXCEPT ![p] = AddSteps[1]]
    /\ UNCHANGED <<dirs, osUsers, dbs, dbUsers, confs, stateFile, defaultSites, faults, last>>

\* A mkdir that always passes over an existing directory (exist_ok=True).
MkdirRefuses_ExistOk(path, force) == FALSE

\* Line 83: mkdir(parents=True, exist_ok=force) raises FileExistsError for a
\* directory that exists unless force is set.
MkdirRefuses(path, force) == path \in dirs /\ ~force

\* Lines 81-84: site_root.mkdir(parents=True, exist_ok=force)
AddDirectory(p) ==
    /\ pc[p] = "directory"
    /\ LET l == loc[p]
           path == site_path(l.primary_domain)
       IN  \E o \in (IF l.dry_run \/ path \in dirs THEN {"ok"} ELSE Outcomes({"fail"})) :
             /\ CountFault(o)
             /\ IF l.dry_run
                THEN /\ loc' = [loc EXCEPT ![p] = StepDone(l, "directory", path, <<>>)]
                     /\ pc' = [pc EXCEPT ![p] = NextPc(l, "directory")]
                     /\ UNCHANGED dirs
                ELSE IF MkdirRefuses(path, l.force)
                THEN /\ loc' = [loc EXCEPT ![p] =
                             Raised(Logged(l, <<"mkdir">>), "FileExistsError", "mkdir")]
                     /\ pc' = [pc EXCEPT ![p] = RaisedPc(l)]
                     /\ UNCHANGED dirs
                ELSE IF o = "ok"
                THEN /\ loc' = [loc EXCEPT ![p] =
                             StepDone(Logged(l, <<"mkdir">>), "directory", path, <<>>)]
                     /\ pc' = [pc EXCEPT ![p] = NextPc(l, "directory")]
                     /\ dirs' = dirs \cup {path}
                ELSE /\ loc' = [loc EXCEPT ![p] =
                             Raised(Logged(l, <<"mkdir">>), "OSError", "mkdir")]
                     /\ pc' = [pc EXCEPT ![p] = RaisedPc(l)]
                     /\ UNCHANGED dirs
    /\ UNCHANGED <<osUsers, dbs, dbUsers, confs, stateDir, stateFile, defaultSites, calls, last>>

\* Lines 86-91 and core/user.py create_linux_user: useradd -m -d site_root uname
AddUser(p) ==
    /\ pc[p] = "user"
    /\ LET l == loc[p]
           path == site_path(l.primary_domain)
           uname == user_name_from_domain(l.primary_domain)
           valid == validate_identifier(uname)
           runs == valid /\ ~l.dry_run
       IN  \E o \in (IF runs /\ uname \notin DOMAIN osUsers THEN Outcomes({"fail"}) ELSE {"ok"}) :
             /\ CountFault(o)
             /\ IF ~valid
                THEN /\ loc' = [loc EXCEPT ![p] = Raised(l, "ValueError", "username")]
                     /\ pc' = [pc EXCEPT ![p] = RaisedPc(l)]
                     /\ UNCHANGED <<osUsers, dirs>>
                ELSE IF runs /\ (uname \in DOMAIN osUsers \/ o # "ok")
                THEN /\ loc' = [loc EXCEPT ![p] =
                             Raised(Logged(l, <<"useradd">>), "RuntimeError", "useradd")]
                     /\ pc' = [pc EXCEPT ![p] = RaisedPc(l)]
                     /\ UNCHANGED <<osUsers, dirs>>
                ELSE /\ loc' = [loc EXCEPT ![p] =
                             [StepDone(IF runs THEN Logged(l, <<"useradd">>) ELSE l,
                                       "user", uname, <<>>)
                                EXCEPT !.linux_user = uname]]
                     /\ pc' = [pc EXCEPT ![p] = NextPc(l, "user")]
                     /\ osUsers' = IF runs THEN MapSet(osUsers, uname, path) ELSE osUsers
                     /\ dirs' = IF runs THEN dirs \cup {path} ELSE dirs
    /\ UNCHANGED <<dbs, dbUsers, confs, stateDir, stateFile, defaultSites, calls, last>>

\* Lines 93-103 and core/database.py create_database
AddDatabase(p) ==
    /\ pc[p] = "database"
    /\ LET l == loc[p]
           name == l.db_name
           valid == validate_identifier(name)
           password == generate_password
           runs == valid /\ ~l.dry_run
       IN  \E o \in (IF runs THEN Outcomes(CreateDbFailures) ELSE {"ok"}) :
             /\ CountFault(o)
             /\ IF ~valid
                THEN /\ loc' = [loc EXCEPT ![p] = Raised(l, "ValueError", "database name")]
                     /\ pc' = [pc EXCEPT ![p] = RaisedPc(l)]
                     /\ UNCHANGED <<dbs, dbUsers>>
                ELSE IF o # "ok"
                THEN /\ loc' = [loc EXCEPT ![p] =
                             Raised(Logged(l, <<"create_database">>),
                                    "RuntimeError", "create_database")]
                     /\ pc' = [pc EXCEPT ![p] = RaisedPc(l)]
                     /\ dbs' = DbsAfterCreate(o, name)
                     /\ dbUsers' = DbUsersAfterCreate(o, name, password)
                ELSE /\ loc' = [loc EXCEPT ![p] =
                             [StepDone(IF runs THEN Logged(l, <<"create_database">>) ELSE l,
                                       "database", name, name)
                                EXCEPT !.db_user_val = name, !.db_pass_val = password]]
                     /\ pc' = [pc EXCEPT ![p] = NextPc(l, "database")]
                     /\ dbs' = IF runs THEN DbsAfterCreate(o, name) ELSE dbs
                     /\ dbUsers' = IF runs THEN DbUsersAfterCreate(o, name, password)
                                   ELSE dbUsers
    /\ UNCHANGED <<dirs, osUsers, confs, stateDir, stateFile, defaultSites, calls, last>>

\* Lines 105-118 and core/wordpress.py install_wordpress. The credentials are
\* those of the database step; "if not db_user_val or not db_pass_val" creates
\* them when that step left none.
AddWordpress(p) ==
    /\ pc[p] = "wordpress"
    /\ LET l == loc[p]
           path == site_path(l.primary_domain)
           need == l.db_user_val = <<>> \/ l.db_pass_val = 0
           valid == validate_identifier(l.db_name)
           user == IF need THEN l.db_name ELSE l.db_user_val
           password == IF need THEN generate_password ELSE l.db_pass_val
           creates == need /\ valid /\ ~l.dry_run
           l1 == [l EXCEPT !.db_user_val = user, !.db_pass_val = password,
                           !.wp_args = <<l.db_name, user, password>>]
       IN  \E o \in (IF l.dry_run \/ (need /\ ~valid) THEN {"ok"} ELSE Outcomes({"fail"})) :
             /\ CountFault(o)
             /\ dbs' = IF creates THEN DbsAfterCreate("ok", l.db_name) ELSE dbs
             /\ dbUsers' = IF creates THEN DbUsersAfterCreate("ok", user, password)
                           ELSE dbUsers
             /\ IF need /\ ~valid
                THEN /\ loc' = [loc EXCEPT ![p] = Raised(l, "ValueError", "database name")]
                     /\ pc' = [pc EXCEPT ![p] = RaisedPc(l)]
                     /\ UNCHANGED dirs
                ELSE IF l.dry_run
                THEN /\ loc' = [loc EXCEPT ![p] = StepDone(l1, "wordpress", <<>>, <<>>)]
                     /\ pc' = [pc EXCEPT ![p] = NextPc(l, "wordpress")]
                     /\ UNCHANGED dirs
                ELSE IF o = "ok"
                THEN /\ loc' = [loc EXCEPT ![p] =
                             StepDone(Logged(l1, <<"install_wordpress">>),
                                      "wordpress", <<>>, <<>>)]
                     /\ pc' = [pc EXCEPT ![p] = NextPc(l, "wordpress")]
                     /\ dirs' = dirs \cup {path}
                ELSE /\ loc' = [loc EXCEPT ![p] =
                             Raised(Logged(l1, <<"install_wordpress">>),
                                    "OSError", "install_wordpress")]
                     /\ pc' = [pc EXCEPT ![p] = RaisedPc(l)]
                     /\ dirs' = dirs \cup {path}
    /\ UNCHANGED <<osUsers, confs, stateDir, stateFile, defaultSites, calls, last>>

\* Lines 120-126 and core/caddy.py write_site_config
AddCaddy(p) ==
    /\ pc[p] = "caddy"
    /\ LET l == loc[p]
           path == site_path(l.primary_domain)
           all_aliases == FilterAliases(l.aliases, l.primary_domain)
           l1 == [l EXCEPT !.all_aliases = all_aliases]
       IN  \E o \in (IF l.dry_run THEN {"ok"} ELSE Outcomes(WriteConfFailures)) :
             /\ CountFault(o)
             /\ IF l.dry_run
                THEN /\ loc' = [loc EXCEPT ![p] = StepDone(l1, "caddy", <<>>, <<>>)]
                     /\ pc' = [pc EXCEPT ![p] = NextPc(l, "caddy")]
                     /\ UNCHANGED confs
                ELSE /\ confs' = ConfsAfterWrite(o, l.primary_domain, all_aliases, path)
                     /\ CASE o = "ok" ->
                               /\ loc' = [loc EXCEPT ![p] =
                                       StepDone(Logged(l1, <<"write_conf", "reload">>),
                                                "caddy", <<>>, <<>>)]
                               /\ pc' = [pc EXCEPT ![p] = NextPc(l, "caddy")]
                          [] o = "fail_write" ->
                               /\ loc' = [loc EXCEPT ![p] =
                                       Raised(Logged(l1, <<"write_conf">>),
                                              "OSError", "write_conf")]
                               /\ pc' = [pc EXCEPT ![p] = RaisedPc(l)]
                          [] OTHER ->
                               /\ loc' = [loc EXCEPT ![p] =
                                       Raised(Logged(l1, <<"write_conf", "reload">>),
                                              "CalledProcessError", "reload")]
                               /\ pc' = [pc EXCEPT ![p] = RaisedPc(l)]
    /\ UNCHANGED <<dirs, osUsers, dbs, dbUsers, stateDir, stateFile, defaultSites, calls, last>>

\* A record whose password is generated when the record is built.
SiteData_NewPassword(l) ==
    [primary_domain |-> l.primary_domain, aliases |-> l.all_aliases,
     path |-> site_path(l.primary_domain), php_version |-> "8.3", app |-> l.app,
     db_name |-> l.db_name, db_user |-> l.db_user_val, db_password |-> generate_password]

\* A record that holds the domain in lower case.
SiteData_LowerDomain(l) ==
    [primary_domain |-> Lower(l.primary_domain), aliases |-> l.all_aliases,
     path |-> site_path(l.primary_domain), php_version |-> "8.3", app |-> l.app]

\* Lines 129-141: the record add_site assembles.
SiteData(l) ==
    LET base == [primary_domain |-> l.primary_domain,
                 aliases |-> l.all_aliases,
                 path |-> site_path(l.primary_domain),
                 php_version |-> "8.3",
                 app |-> l.app]
        db == IF l.db_user_val # <<>>
              THEN [db_name |-> l.db_name, db_user |-> l.db_user_val,
                    db_password |-> l.db_pass_val]
              ELSE EmptyMap
        user == IF l.linux_user # <<>> THEN [linux_user |-> l.linux_user] ELSE EmptyMap
    IN  base @@ db @@ user

\* Lines 128-147: set_site_state, save_state unless dry_run
AddState(p) ==
    /\ pc[p] = "state"
    /\ LET l == loc[p]
           site_data == SiteData(l)
           sites == set_site_state(SitesOf(l.state, defaultSites[p]),
                                   l.primary_domain, site_data)
           l1 == [l EXCEPT !.site_data = site_data,
                           !.state.sites = IF l.state.shared THEN @ ELSE sites]
       IN  \E o \in (IF l.dry_run THEN {"ok"} ELSE Outcomes(SaveFailures)) :
             /\ CountFault(o)
             /\ defaultSites' = IF l.state.shared
                                THEN [defaultSites EXCEPT ![p] = sites]
                                ELSE defaultSites
             /\ IF l.dry_run
                THEN /\ loc' = [loc EXCEPT ![p] = StepDone(l1, "state", <<>>, <<>>)]
                     /\ pc' = [pc EXCEPT ![p] = NextPc(l, "state")]
                     /\ UNCHANGED <<stateDir, stateFile>>
                ELSE /\ stateDir' = TRUE
                     /\ stateFile' = FileAfterSave(o, sites, l.state.version)
                     /\ IF o = "ok"
                        THEN /\ loc' = [loc EXCEPT ![p] =
                                     StepDone(Logged(l1, <<"save_state">>),
                                              "state", <<>>, <<>>)]
                             /\ pc' = [pc EXCEPT ![p] = NextPc(l, "state")]
                        ELSE /\ loc' = [loc EXCEPT ![p] =
                                     Raised(Logged(l1, <<"save_state">>),
                                            "OSError", "save_state")]
                             /\ pc' = [pc EXCEPT ![p] = RaisedPc(l)]
    /\ UNCHANGED <<dirs, osUsers, dbs, dbUsers, confs, calls, last>>

\* A rollback whose own failure replaces the exception of the step.
PropagatedError_Masked(original, rb_failed) ==
    IF rb_failed # <<>>
    THEN [type |-> "RuntimeError", origin |-> "rollback"]
    ELSE original

\* Lines 148-152: "raise" re-raises the exception of the failed step, whatever
\* the rollback logged.
PropagatedError(original, rb_failed) == original

\* A rollback loop that a failing undo ends.
NextRollbackIndex_StopOnFailure(i, failed) == IF failed THEN 0 ELSE i - 1

\* A rollback loop that leaves out every second recorded step.
NextRollbackIndex_SkipOne(i, failed) == IF i >= 2 THEN i - 2 ELSE 0

\* Lines 59-78: the rollback loop goes on to the next recorded step whether the
\* undo at index i failed or not ("except Exception: logger.warning").
NextRollbackIndex(i, failed) == i - 1

\* The ways the undo of a recorded step may fail where the environment decides.
UndoFailures(l, s) ==
    CASE s.name = "caddy" /\ ~ConfMissing(get_site_config_path(l.primary_domain)) ->
             RemoveConfFailures
      [] s.name = "database" /\ validate_identifier(s.a) -> DropDbFailures
      [] s.name = "user" /\ s.a \in DOMAIN osUsers -> {"fail"}
      [] s.name = "directory" /\ site_path(l.primary_domain) \in dirs -> {"fail"}
      [] OTHER -> {}

\* What the undo of a recorded step calls outside the process.
UndoLog(l, s, o) ==
    CASE s.name = "caddy" /\ ~ConfMissing(get_site_config_path(l.primary_domain)) ->
             IF o = "fail_unlink" THEN <<"unlink_conf">> ELSE <<"unlink_conf", "reload">>
      [] s.name = "database" /\ validate_identifier(s.a) -> <<"delete_database">>
      [] s.name = "user" -> <<"userdel">>
      [] s.name = "directory" /\ site_path(l.primary_domain) \in dirs -> <<"rmtree">>
      [] OTHER -> <<>>

\* Lines 58-78: one iteration of rollback(), the undo of steps_done[rb]; after the
\* last one, the "raise" of line 152.
RollbackStep(p) ==
    /\ pc[p] = "rollback"
    /\ LET l == loc[p]
           s == l.steps_done[l.rb]
           path == site_path(l.primary_domain)
           key == get_site_config_path(l.primary_domain)
       IN  \E o \in Outcomes(UndoFailures(l, s)) :
             LET failed ==
                     \/ o # "ok"
                     \/ s.name = "database" /\ ~validate_identifier(s.a)
                     \/ s.name = "user" /\ s.a \notin DOMAIN osUsers
                 rb_failed == IF failed THEN Append(l.rb_failed, s.name) ELSE l.rb_failed
                 next == NextRollbackIndex(l.rb, failed)
                 l1 == [Logged(l, UndoLog(l, s, o))
                          EXCEPT !.undone = Append(@, s.name),
                                 !.rb_failed = rb_failed,
                                 !.rb = next]
             IN  /\ CountFault(o)
                 /\ confs' = IF s.name = "caddy" /\ ~ConfMissing(key)
                             THEN ConfsAfterRemove(o, key) ELSE confs
                 /\ dbs' = IF s.name = "database" /\ validate_identifier(s.a)
                           THEN DbsAfterDrop(o, s.a) ELSE dbs
                 /\ dbUsers' = IF s.name = "database" /\ validate_identifier(s.a)
                               THEN DbUsersAfterDrop(o, s.b) ELSE dbUsers
                 /\ osUsers' = IF s.name = "user" /\ ~failed
                               THEN MapDel(osUsers, s.a) ELSE osUsers
                 /\ dirs' = CASE s.name = "user" /\ ~failed -> dirs \ {osUsers[s.a]}
                              [] s.name = "directory" /\ ~failed -> dirs \ {path}
                              [] OTHER -> dirs
                 /\ IF next = 0
                    THEN /\ loc' = [loc EXCEPT ![p] =
                                 [l1 EXCEPT !.result = "raised",
                                            !.error = PropagatedError(l.failure, rb_failed)]]
                         /\ pc' = [pc EXCEPT ![p] = "done"]
                    ELSE /\ loc' = [loc EXCEPT ![p] = l1]
                         /\ UNCHANGED pc
    /\ UNCHANGED <<stateDir, stateFile, defaultSites, calls, last>>

----
\* core/site.py delete_site: no try block, an exception ends the call.

DelRaise(l, type, origin) ==
    [l EXCEPT !.failure = [type |-> type, origin |-> origin],
              !.error = [type |-> type, origin |-> origin],
              !.result = "raised"]

\* Lines 157-159: load_state, get_site_state
DelBegin(p, primary, dry_run) ==
    /\ pc[p] = "idle"
    /\ calls < MaxCalls
    /\ calls' = calls + 1
    /\ stateDir' = TRUE
    /\ LET st == load_state(stateFile)
       IN  loc' = [loc EXCEPT ![p] =
                 [InitLoc EXCEPT !.op = "delete", !.primary_domain = primary,
                                 !.dry_run = dry_run, !.pre = World,
                                 !.pre_default = defaultSites[p],
                                 !.state = st,
                                 !.loaded = SitesOf(st, defaultSites[p]),
                                 !.site_data =
                                     get_site_state(SitesOf(st, defaultSites[p]), primary),
                                 !.after_delete =
                                     /\ last.op = "delete"
                                     /\ last.primary_domain = primary]]
    /\ pc' = [pc EXCEPT ![p] = "del_directory"]
    /\ UNCHANGED <<dirs, osUsers, dbs, dbUsers, confs, stateFile, defaultSites, faults, last>>

\* A delete_site that goes from the directory straight to the state.
DelNextAfterDirectory_StateFirst(l) == "del_state"

\* "if site_data: ... if db_name:" decides whether the database step runs.
DelNextAfterDirectory(l) ==
    IF Truthy(l.site_data) /\ GetStr(l.site_data, "db_name") # <<>>
    THEN "del_database" ELSE "del_caddy"

\* A delete_site that removes the account named by the record's linux_user.
OsUsersAfterDelete_Userdel(l) ==
    IF ~l.dry_run /\ Truthy(l.site_data) /\ GetStr(l.site_data, "linux_user") # <<>>
    THEN MapDel(osUsers, GetStr(l.site_data, "linux_user"))
    ELSE osUsers

\* Lines 155-176: delete_site reads db_name and db_user of the record only and
\* calls nothing of core/user.py; the OS accounts stay as they are.
OsUsersAfterDelete(l) == osUsers

\* Lines 161-164: shutil.rmtree(site_root)
DelDirectory(p) ==
    /\ pc[p] = "del_directory"
    /\ LET l == loc[p]
           path == site_path(l.primary_domain)
           runs == ~l.dry_run /\ path \in dirs
       IN  \E o \in (IF runs THEN Outcomes({"fail"}) ELSE {"ok"}) :
             /\ CountFault(o)
             /\ dirs' = IF runs /\ o = "ok" THEN dirs \ {path} ELSE dirs
             /\ IF o = "ok"
                THEN /\ loc' = [loc EXCEPT ![p] =
                             IF runs THEN Logged(l, <<"rmtree">>) ELSE l]
                     /\ pc' = [pc EXCEPT ![p] = DelNextAfterDirectory(l)]
                ELSE /\ loc' = [loc EXCEPT ![p] =
                             DelRaise(Logged(l, <<"rmtree">>), "OSError", "rmtree")]
                     /\ pc' = [pc EXCEPT ![p] = "done"]
             /\ osUsers' = OsUsersAfterDelete(l)
    /\ UNCHANGED <<dbs, dbUsers, confs, stateDir, stateFile, defaultSites, calls, last>>

\* Lines 166-170 and core/database.py delete_database
DelDatabase(p) ==
    /\ pc[p] = "del_database"
    /\ LET l == loc[p]
           db_name == GetStr(l.site_data, "db_name")
           db_user == IF GetStr(l.site_data, "db_user") # <<>>
                      THEN GetStr(l.site_data, "db_user") ELSE db_name
           valid == validate_identifier(db_name)
           runs == valid /\ ~l.dry_run
       IN  \E o \in (IF runs THEN Outcomes(DropDbFailures) ELSE {"ok"}) :
             /\ CountFault(o)
             /\ dbs' = IF runs THEN DbsAfterDrop(o, db_name) ELSE dbs
             /\ dbUsers' = IF runs THEN DbUsersAfterDrop(o, db_user) ELSE dbUsers
             /\ IF ~valid
                THEN /\ loc' = [loc EXCEPT ![p] = DelRaise(l, "ValueError", "database name")]
                     /\ pc' = [pc EXCEPT ![p] = "done"]
                ELSE IF o = "ok"
                THEN /\ loc' = [loc EXCEPT ![p] =
                             IF runs THEN Logged(l, <<"delete_database">>) ELSE l]
                     /\ pc' = [pc EXCEPT ![p] = "del_caddy"]
                ELSE /\ loc' = [loc EXCEPT ![p] =
                             DelRaise(Logged(l, <<"delete_database">>),
                                      "RuntimeError", "delete_database")]
                     /\ pc' = [pc EXCEPT ![p] = "done"]
    /\ UNCHANGED <<dirs, osUsers, confs, stateDir, stateFile, defaultSites, calls, last>>

\* Line 172 and core/caddy.py remove_site_config
DelCaddy(p) ==
    /\ pc[p] = "del_caddy"
    /\ LET l == loc[p]
           key == get_site_config_path(l.primary_domain)
           skips == l.dry_run \/ ConfMissing(key)
           exists == key \in DOMAIN confs
       IN  \E o \in (IF ~skips /\ exists THEN Outcomes(RemoveConfFailures) ELSE {"ok"}) :
             /\ CountFault(o)
             /\ confs' = IF ~skips /\ exists THEN ConfsAfterRemove(o, key) ELSE confs
             /\ IF skips
                THEN /\ loc' = [loc EXCEPT ![p] = l]
                     /\ pc' = [pc EXCEPT ![p] = "del_state"]
                ELSE IF ~exists
                THEN /\ loc' = [loc EXCEPT ![p] =
                             DelRaise(Logged(l, <<"unlink_conf">>),
                                      "FileNotFoundError", "unlink_conf")]
                     /\ pc' = [pc EXCEPT ![p] = "done"]
                ELSE CASE o = "ok" ->
                            /\ loc' = [loc EXCEPT ![p] =
                                    Logged(l, <<"unlink_conf", "reload">>)]
                            /\ pc' = [pc EXCEPT ![p] = "del_state"]
                       [] o = "fail_unlink" ->
                            /\ loc' = [loc EXCEPT ![p] =
                                    DelRaise(Logged(l, <<"unlink_conf">>),
                                             "OSError", "unlink_conf")]
                            /\ pc' = [pc EXCEPT ![p] = "done"]
                       [] OTHER ->
                            /\ loc' = [loc EXCEPT ![p] =
                                    DelRaise(Logged(l, <<"unlink_conf", "reload">>),
                                             "CalledProcessError", "reload")]
                            /\ pc' = [pc EXCEPT ![p] = "done"]
    /\ UNCHANGED <<dirs, osUsers, dbs, dbUsers, stateDir, stateFile, defaultSites, calls, last>>

\* Lines 173-176: remove_site_state, save_state unless dry_run
DelState(p) ==
    /\ pc[p] = "del_state"
    /\ LET l == loc[p]
           sites == remove_site_state(SitesOf(l.state, defaultSites[p]), l.primary_domain)
           l1 == [l EXCEPT !.state.sites = IF l.state.shared THEN @ ELSE sites]
       IN  \E o \in (IF l.dry_run THEN {"ok"} ELSE Outcomes(SaveFailures)) :
             /\ CountFault(o)
             /\ defaultSites' = IF l.state.shared
                                THEN [defaultSites EXCEPT ![p] = sites]
                                ELSE defaultSites
             /\ stateFile' = IF l.dry_run THEN stateFile
                             ELSE FileAfterSave(o, sites, l.state.version)
             /\ loc' = [loc EXCEPT ![p] =
                     CASE l.dry_run -> [l1 EXCEPT !.result = "returned"]
                       [] o = "ok" -> [Logged(l1, <<"save_state">>) EXCEPT !.result = "returned"]
                       [] OTHER -> DelRaise(Logged(l1, <<"save_state">>),
                                            "OSError", "save_state")]
             /\ pc' = [pc EXCEPT ![p] = "done"]
    /\ UNCHANGED <<dirs, osUsers, dbs, dbUsers, confs, stateDir, calls, last>>

----
\* core/site.py site_info, lines 189-195: load_state, get_site_state
SiteInfo(p, primary) ==
    /\ pc[p] = "idle"
    /\ calls < MaxCalls
    /\ calls' = calls + 1
    /\ stateDir' = TRUE
    /\ LET st == load_state(stateFile)
           data == get_site_state(SitesOf(st, defaultSites[p]), primary)
       IN  loc' = [loc EXCEPT ![p] =
                 [InitLoc EXCEPT !.op = "info", !.primary_domain = primary,
                                 !.pre = World, !.pre_default = defaultSites[p],
                                 !.state = st,
                                 !.loaded = SitesOf(st, defaultSites[p]),
                                 !.info = IF Truthy(data)
                                          THEN data @@ [primary_domain |-> primary]
                                          ELSE None,
                                 !.result = "returned"]]
    /\ pc' = [pc EXCEPT ![p] = "done"]
    /\ UNCHANGED <<dirs, osUsers, dbs, dbUsers, confs, stateFile, defaultSites, faults, last>>

\* What is remembered of a call once it has returned: a delete_site that ran for
\* real and did not raise.
LastOf(l) ==
    IF l.op = "delete" /\ ~l.dry_run /\ l.result = "returned"
    THEN [op |-> "delete", primary_domain |-> l.primary_domain,
          dry_run |-> FALSE, result |-> "returned"]
    ELSE NoLast

\* The call is over: its locals are gone.
Return(p) ==
    /\ pc[p] = "done"
    /\ pc' = [pc EXCEPT ![p] = "idle"]
    /\ last' = LastOf(loc[p])
    /\ loc' = [loc EXCEPT ![p] = InitLoc]
    /\ UNCHANGED <<worldVars, defaultSites, calls, faults>>

\* The process ends and the next command starts a new one: utils/state.py is
\* imported again and DEFAULT_STATE (line 12) is a new dict.
ProcessRestart(p) ==
    /\ pc[p] = "idle"
    /\ defaultSites[p] # EmptyMap
    /\ defaultSites' = [defaultSites EXCEPT ![p] = EmptyMap]
    /\ UNCHANGED <<worldVars, pc, loc, calls, faults, last>>

Next ==
    \E p \in Procs :
        \/ \E a \in AddInputs :
              AddBegin(p, a.primary, a.aliases, a.app, a.create_user, a.force, a.dry_run)
        \/ AddDirectory(p)
        \/ AddUser(p)
        \/ AddDatabase(p)
        \/ AddWordpress(p)
        \/ AddCaddy(p)
        \/ AddState(p)
        \/ RollbackStep(p)
        \/ \E d \in DelInputs : DelBegin(p, d.primary, d.dry_run)
        \/ DelDirectory(p)
        \/ DelDatabase(p)
        \/ DelCaddy(p)
        \/ DelState(p)
        \/ \E primary \in InfoInputs : SiteInfo(p, primary)
        \/ Return(p)
        \/ ProcessRestart(p)

Spec == Init /\ [][Next]_vars

----
\* Properties of add_site, delete_site and the state store.

\* The site records of the state file of world w, as a fresh reader gets them.
PersistedSites(w) ==
    IF w.stateFile.kind = "json" THEN JsonLoadSites(w.stateFile.doc) ELSE EmptyMap

Range(s) == {s[i] : i \in 1..Len(s)}

\* The names of the steps the running call recorded in steps_done, in order.
StepNames(l) == [i \in 1..Len(l.steps_done) |-> l.steps_done[i].name]

\* An add_site call for a domain of which the host holds nothing yet: no
\* record, no directory, no account, no database, no proxy config.
FreshAdd(l) ==
    /\ l.op = "add"
    /\ ~l.dry_run
    /\ l.primary_domain \notin DOMAIN PersistedSites(l.pre)
    /\ ~Truthy(l.existing)
    /\ site_path(l.primary_domain) \notin l.pre.dirs
    /\ user_name_from_domain(l.primary_domain) \notin DOMAIN l.pre.osUsers
    /\ db_name_from_domain(l.primary_domain) \notin l.pre.dbs
    /\ get_site_config_path(l.primary_domain) \notin DOMAIN l.pre.confs

\* The failures of the steps after the directory step.
LaterStepFailures ==
    {"username", "useradd", "database name", "create_database", "install_wordpress",
     "write_conf", "reload", "save_state"}

\* C1: when add_site for a domain with no prior record and no prior directory
\* fails in the user, database, application, proxy-config or state-save step and
\* every rollback action succeeds, then no site directory, no OS user created by
\* the call, no database, no proxy config file and no state record remain for
\* the domain.
C1_RollbackLeavesNothing ==
    \A p \in Procs :
        LET l == loc[p]
        IN  (/\ pc[p] = "done"
             /\ FreshAdd(l)
             /\ l.result = "raised"
             /\ l.failure.origin \in LaterStepFailures
             /\ l.rb_failed = <<>>)
            => /\ site_path(l.primary_domain) \notin dirs
               /\ user_name_from_domain(l.primary_domain) \notin DOMAIN osUsers
               /\ db_name_from_domain(l.primary_domain) \notin dbs
               /\ get_site_config_path(l.primary_domain) \notin DOMAIN confs
               /\ l.primary_domain \notin DOMAIN PersistedSites(World)

\* C2 as stated: when the state file holds a record for the primary domain and
\* force is not set, add_site fails with the "Site already exists" error and
\* the world is what it was before the call.
C2_ConflictAlways ==
    \A p \in Procs :
        LET l == loc[p]
        IN  (/\ l.op = "add"
             /\ ~l.force
             /\ l.primary_domain \in DOMAIN PersistedSites(l.pre))
            => /\ pc[p] = "done"
               /\ l.result = "raised"
               /\ l.error.origin = "Site already exists"
               /\ World = l.pre

\* C2: when the state file holds a record for the primary domain and force is
\* not set, add_site fails and the world is what it was before the call; the
\* error is "Site already exists" when the domains pass validation, and the
\* validation error otherwise.
C2_ConflictAfterValidation ==
    \A p \in Procs :
        LET l == loc[p]
            v == validate_domains(l.primary_domain, l.aliases)
        IN  (/\ l.op = "add"
             /\ ~l.force
             /\ l.primary_domain \in DOMAIN PersistedSites(l.pre))
            => /\ pc[p] = "done"
               /\ l.result = "raised"
               /\ l.error.type = "ValueError"
               /\ l.error.origin = (IF v.ok THEN "Site already exists" ELSE v.err)
               /\ l.log = <<>>
               /\ World = l.pre

\* A call that met the record of its domain and raised the conflict.
C2_Witness ==
    \E p \in Procs :
        /\ pc[p] = "done"
        /\ loc[p].op = "add"
        /\ ~loc[p].force
        /\ loc[p].primary_domain \in DOMAIN PersistedSites(loc[p].pre)
        /\ loc[p].error.origin = "Site already exists"
        /\ loc[p].pre.dirs # {}

\* C3: add_site writes the state file only after the directory, user, database,
\* application and proxy-config steps it runs have all succeeded, and whenever
\* one of those steps fails the state file is what it was before the call.
C3_StateCommittedLast ==
    \A p \in Procs :
        LET l == loc[p]
            earlier == {s \in {"directory", "user", "database", "wordpress", "caddy"} :
                            StepApplies(l, s)}
        IN  l.op = "add"
            => /\ ("save_state" \in Range(l.log) \/ stateFile # l.pre.stateFile)
                    => earlier \subseteq Range(StepNames(l))
               /\ (l.failure # NoError /\ l.failure.origin # "save_state")
                    => /\ stateFile = l.pre.stateFile
                       /\ "save_state" \notin Range(l.log)

\* A step before the state step failed after others had succeeded, on a host
\* that has a state file.
C3_Witness ==
    \E p \in Procs :
        /\ pc[p] = "done"
        /\ loc[p].op = "add"
        /\ loc[p].failure.origin \in {"reload", "install_wordpress", "create_database"}
        /\ Len(loc[p].steps_done) >= 2
        /\ loc[p].pre.stateFile.kind = "json"

\* C4: when rollback runs after a failed add_site, the exception that reaches
\* the caller is the one of the step that failed, whether or not undo actions
\* failed during rollback.
C4_OriginalErrorPropagates ==
    \A p \in Procs :
        LET l == loc[p]
        IN  (pc[p] = "done" /\ l.op = "add" /\ l.result = "raised")
            => /\ l.failure # NoError
               /\ l.error = l.failure

\* A rollback in which an undo action failed has ended.
C4_Witness ==
    \E p \in Procs :
        /\ pc[p] = "done"
        /\ loc[p].op = "add"
        /\ loc[p].result = "raised"
        /\ loc[p].undone # <<>>
        /\ loc[p].rb_failed # <<>>

\* How often name occurs in the sequence s.
Count(s, name) == Cardinality({i \in 1..Len(s) : s[i] = name})

\* C5: in add_site's rollback the failure of one undo action does not stop the
\* others: once rollback has ended, the undo of every recorded step has been
\* attempted exactly once.
C5_RollbackBestEffort ==
    \A p \in Procs :
        LET l == loc[p]
        IN  (/\ pc[p] = "done"
             /\ l.op = "add"
             /\ l.result = "raised"
             /\ ~l.dry_run)
            => \A s \in Range(AddSteps) : Count(l.undone, s) = Count(StepNames(l), s)

\* A rollback went on after an undo action had failed.
C5_Witness ==
    \E p \in Procs :
        /\ pc[p] = "done"
        /\ loc[p].op = "add"
        /\ \E i \in 1..(Len(loc[p].undone) - 1) :
              loc[p].undone[i] \in Range(loc[p].rb_failed)

\* C6: a dry-run add_site or delete_site changes nothing outside the process:
\* directories, OS users, databases, proxy config files, the state directory
\* and the state file are what they were before the call.
C6_DryRunTouchesNothing ==
    \A p \in Procs :
        LET l == loc[p]
        IN  (pc[p] = "done" /\ l.op \in {"add", "delete"} /\ l.dry_run)
            => World = l.pre

\* The running call has called load_state: site_info and delete_site do at once,
\* add_site after the validation.
HasLoaded(l) ==
    \/ l.op \in {"info", "delete"}
    \/ l.op = "add" /\ validate_domains(l.primary_domain, l.aliases).ok

\* C7: the document load_state returns holds exactly the site records of the
\* state file (none when there is no readable file), whatever the process did
\* to documents it loaded before.
C7_LoadReflectsFile ==
    \A p \in Procs :
        LET l == loc[p]
        IN  HasLoaded(l) => l.loaded = PersistedSites(l.pre)

\* The failures of delete_site's teardown steps before the state step.
TeardownFailures == {"rmtree", "database name", "delete_database", "unlink_conf", "reload"}

\* C8: delete_site attempts every teardown step it has: a call in which the
\* removal of the directory, the database or the proxy config failed has still
\* gone on to the removal of the state record and the save.
C8_DeleteAttemptsEverything ==
    \A p \in Procs :
        LET l == loc[p]
        IN  (/\ pc[p] = "done"
             /\ l.op = "delete"
             /\ ~l.dry_run
             /\ l.failure.origin \in TeardownFailures)
            => "save_state" \in Range(l.log)

\* What delete_site may call outside the process to tear a site down.
TeardownCalls == {"rmtree", "delete_database", "unlink_conf", "reload"}

\* C9: a delete_site that follows a successful delete_site of the same domain
\* finds nothing to tear down and does not raise: it calls nothing but the save
\* of the state, directories, accounts, databases and proxy configs stay as
\* they were, and the state file it saves is the one it found. Only the save
\* itself, when the file system refuses it, can make the call raise.
C9_SecondDeleteIsNoop ==
    \A p \in Procs :
        LET l == loc[p]
        IN  (pc[p] = "done" /\ l.op = "delete" /\ l.after_delete)
            => /\ Range(l.log) \cap TeardownCalls = {}
               /\ l.result = "returned" \/ l.failure.origin = "save_state"
               /\ <<dirs, osUsers, dbs, dbUsers, confs, stateDir>>
                      = <<l.pre.dirs, l.pre.osUsers, l.pre.dbs, l.pre.dbUsers,
                          l.pre.confs, l.pre.stateDir>>
               /\ l.result = "returned" => stateFile = l.pre.stateFile

\* The second of two delete_site calls for a site that add_site had created
\* has returned.
C9_Witness ==
    \E p \in Procs :
        /\ pc[p] = "done"
        /\ loc[p].op = "delete"
        /\ loc[p].after_delete
        /\ ~loc[p].dry_run
        /\ loc[p].result = "returned"
        /\ loc[p].primary_domain = ACo
        /\ calls = 3
        /\ dbUsers # EmptyMap

----
\* utils/state.py used by itself, as tests/test_state.py does: a client loads
\* the document, sets and removes records in it, saves it, loads again.

\* Site records as add_site assembles them, without and with the database fields.
RecPlain(d) ==
    [primary_domain |-> d, aliases |-> <<>>, path |-> site_path(d),
     php_version |-> "8.3", app |-> NoneStr]

RecWordpress(d) ==
    [primary_domain |-> d, aliases |-> <<ACoUpper>>, path |-> site_path(d),
     php_version |-> "8.3", app |-> "wordpress",
     db_name |-> db_name_from_domain(d), db_user |-> db_name_from_domain(d),
     db_password |-> 1]

StateDomains == {ACo, OneCo}

StateRecords == {RecPlain(ACo), RecWordpress(OneCo)}

\* state = load_state()
StLoad(p) ==
    /\ pc[p] \in {"idle", "held"}
    /\ stateDir' = TRUE
    /\ LET l == loc[p]
           st == load_state(stateFile)
       IN  loc' = [loc EXCEPT ![p] =
                 [l EXCEPT !.op = "state", !.state = st,
                           !.trip = IF l.trip.stage = "saved"
                                    THEN [l.trip EXCEPT !.stage = "loaded"]
                                    ELSE NoTrip]]
    /\ pc' = [pc EXCEPT ![p] = "held"]
    /\ UNCHANGED <<dirs, osUsers, dbs, dbUsers, confs, stateFile, defaultSites,
                   calls, faults, last>>

\* The held document after its "sites" became `sites`: a document that shares
\* the dict of DEFAULT_STATE changes that dict.
HeldAfter(p, l, sites) ==
    /\ defaultSites' = IF l.state.shared
                       THEN [defaultSites EXCEPT ![p] = sites]
                       ELSE defaultSites
    /\ UNCHANGED <<worldVars, pc, calls, faults, last>>

\* set_site_state(state, d, r)
StSet(p, d, r) ==
    /\ pc[p] = "held"
    /\ LET l == loc[p]
           before == SitesOf(l.state, defaultSites[p])
           sites == set_site_state(before, d, r)
       IN  /\ loc' = [loc EXCEPT ![p] =
                   [l EXCEPT !.state.sites = IF l.state.shared THEN @ ELSE sites,
                             !.trip = [stage |-> "set", d |-> d, r |-> r,
                                       others |-> MapDel(before, d)]]]
           /\ HeldAfter(p, l, sites)

\* remove_site_state(state, d)
StRemove(p, d) ==
    /\ pc[p] = "held"
    /\ LET l == loc[p]
           before == SitesOf(l.state, defaultSites[p])
           sites == remove_site_state(before, d)
       IN  /\ loc' = [loc EXCEPT ![p] =
                   [l EXCEPT !.state.sites = IF l.state.shared THEN @ ELSE sites,
                             !.trip = [stage |-> "removed", d |-> d, r |-> None,
                                       others |-> MapDel(before, d)]]]
           /\ HeldAfter(p, l, sites)

\* save_state(state)
StSave(p) ==
    /\ pc[p] = "held"
    /\ LET l == loc[p]
           sites == SitesOf(l.state, defaultSites[p])
       IN  \E o \in Outcomes(SaveFailures) :
             /\ CountFault(o)
             /\ stateDir' = TRUE
             /\ stateFile' = FileAfterSave(o, sites, l.state.version)
             /\ loc' = [loc EXCEPT ![p] =
                     [l EXCEPT !.trip = IF o = "ok" /\ l.trip.stage = "set"
                                        THEN [l.trip EXCEPT !.stage = "saved"]
                                        ELSE NoTrip]]
    /\ UNCHANGED <<dirs, osUsers, dbs, dbUsers, confs, defaultSites, pc, calls, last>>

\* The client lets go of the document.
StDrop(p) ==
    /\ pc[p] = "held"
    /\ pc' = [pc EXCEPT ![p] = "idle"]
    /\ loc' = [loc EXCEPT ![p] = InitLoc]
    /\ UNCHANGED <<worldVars, defaultSites, calls, faults, last>>

NextState ==
    \E p \in Procs :
        \/ StLoad(p)
        \/ \E d \in StateDomains, r \in StateRecords : StSet(p, d, r)
        \/ \E d \in StateDomains : StRemove(p, d)
        \/ StSave(p)
        \/ StDrop(p)
        \/ ProcessRestart(p)

SpecState == Init /\ [][NextState]_vars

\* C10: after set(d, r) on a loaded document, a save and a load, get(d) of the
\* loaded document is r and every other record is what it was when r was set;
\* after remove(d) on a document get(d) is absent and the other records are
\* what they were.
C10_StateRoundTrip ==
    \A p \in Procs :
        LET t == loc[p].trip
            sites == SitesOf(loc[p].state, defaultSites[p])
        IN  /\ t.stage = "loaded"
                => /\ get_site_state(sites, t.d) = t.r
                   /\ MapDel(sites, t.d) = t.others
            /\ t.stage = "removed"
                => /\ get_site_state(sites, t.d) = None
                   /\ sites = t.others

\* A record without application was set beside another record, saved and
\* loaded again from the file.
C10_Witness ==
    \E p \in Procs :
        /\ loc[p].trip.stage = "loaded"
        /\ loc[p].trip.r = RecPlain(ACo)
        /\ loc[p].trip.others # EmptyMap
        /\ ~loc[p].state.shared

----
\* utils/state.py load_state called on whatever the state file holds.

\* State files that are missing or malformed.
MalformedFiles ==
    {AbsentFile, EmptyFile, PartialFile, BinaryFile}
    \cup {JsonValueFile(j) : j \in {JNull, <<"true">>, <<"number", 0>>, JString("s"),
                                    JArray(<<>>)}}
    \cup {JsonObjectFile(x, v) :
              x \in {<<>>, JNull, JArray(<<>>), JString("s")}, v \in {0, 1, 2}}

\* State files as save_state writes them.
WellFormedFiles ==
    {JsonFile(EmptyMap, StateVersion), JsonFile(MapSet(EmptyMap, ACo, RecPlain(ACo)), StateVersion)}

LoadInit ==
    /\ stateFile \in MalformedFiles \cup WellFormedFiles
    /\ stateDir = (stateFile # AbsentFile)
    /\ dirs = {}
    /\ osUsers = EmptyMap
    /\ dbs = {}
    /\ dbUsers = EmptyMap
    /\ confs = EmptyMap
    /\ defaultSites = [p \in Procs |-> EmptyMap]
    /\ pc = [p \in Procs |-> "idle"]
    /\ loc = [p \in Procs |-> InitLoc]
    /\ calls = 0
    /\ faults = 0
    /\ last = NoLast

\* state = load_state(), in a process that has not touched DEFAULT_STATE
LoadCall(p) ==
    /\ pc[p] = "idle"
    /\ calls < MaxCalls
    /\ calls' = calls + 1
    /\ stateDir' = TRUE
    /\ LET st == load_state(stateFile)
           l == [InitLoc EXCEPT !.op = "load", !.pre = World]
       IN  loc' = [loc EXCEPT ![p] =
                 IF "raised" \in DOMAIN st
                 THEN [l EXCEPT !.failure = [type |-> st.raised, origin |-> "load_state"],
                                !.error = [type |-> st.raised, origin |-> "load_state"],
                                !.result = "raised"]
                 ELSE [l EXCEPT !.state = st,
                                !.loaded = SitesOf(st, defaultSites[p]),
                                !.result = "returned"]]
    /\ pc' = [pc EXCEPT ![p] = "done"]
    /\ UNCHANGED <<dirs, osUsers, dbs, dbUsers, confs, stateFile, defaultSites, faults, last>>

NextLoad == \E p \in Procs : LoadCall(p) \/ Return(p)

SpecLoad == LoadInit /\ [][NextLoad]_vars

\* C11: load_state on a missing state file and on one with malformed content
\* (no JSON, JSON that is no object, an object whose "sites" is missing or no
\* mapping) does not raise and returns a document with version 1 and no sites.
C11_PermissiveLoad ==
    \A p \in Procs :
        LET l == loc[p]
        IN  (pc[p] = "done" /\ l.op = "load" /\ l.pre.stateFile \in MalformedFiles)
            => /\ l.result = "returned"
               /\ l.state.version = StateVersion
               /\ l.loaded = EmptyMap

\* C12: save_state replaces the state file atomically: once a call has started
\* save_state, whether the write went through or stopped half way, the state
\* file is the complete document of before the call or the complete document
\* the call saves, never a truncated or empty one.
C12_AtomicSave ==
    \A p \in Procs :
        LET l == loc[p]
        IN  "save_state" \in Range(l.log)
            => \/ stateFile = l.pre.stateFile
               \/ stateFile = JsonFile(SitesOf(l.state, defaultSites[p]), l.state.version)

----
\* add_site and delete_site called with domains that differ in letter case only.

CaseAddInputs ==
    {[primary |-> d, aliases |-> <<>>, app |-> NoneStr, create_user |-> FALSE,
      force |-> FALSE, dry_run |-> FALSE] : d \in {ACo, ACoUpper}}

CaseDelInputs == {[primary |-> d, dry_run |-> FALSE] : d \in {ACo, ACoUpper}}

NextCase ==
    \E p \in Procs :
        \/ \E a \in CaseAddInputs :
              AddBegin(p, a.primary, a.aliases, a.app, a.create_user, a.force, a.dry_run)
        \/ AddDirectory(p)
        \/ AddDatabase(p)
        \/ AddCaddy(p)
        \/ AddState(p)
        \/ RollbackStep(p)
        \/ \E d \in CaseDelInputs : DelBegin(p, d.primary, d.dry_run)
        \/ DelDirectory(p)
        \/ DelDatabase(p)
        \/ DelCaddy(p)
        \/ DelState(p)
        \/ Return(p)

SpecCase == Init /\ [][NextCase]_vars

\* C13: the state file never holds two records whose keys are equal ignoring
\* case, and an add_site without force for a domain that is, ignoring case, the
\* key of a record of the state file is rejected with "Site already exists".
C13_CaseInsensitiveKeys ==
    /\ \A d1, d2 \in DOMAIN PersistedSites(World) : Lower(d1) = Lower(d2) => d1 = d2
    /\ \A p \in Procs :
          LET l == loc[p]
          IN  (/\ l.op = "add"
               /\ ~l.force
               /\ \E k \in DOMAIN PersistedSites(l.pre) : Lower(k) = Lower(l.primary_domain))
              => /\ pc[p] = "done"
                 /\ l.error.origin = "Site already exists"

----
\* main.py wordpress_install ("wordpress install DOMAIN"), lines 254-301. An
\* exception ends the command with typer.Exit(1); nothing is undone.

WpExit(l, origin) ==
    [l EXCEPT !.failure = [type |-> "Exit", origin |-> origin],
              !.error = [type |-> "Exit", origin |-> origin],
              !.result = "raised"]

\* "if not db_name or not db_user or not db_pass"
WpNeedsDatabase(info) ==
    \/ GetStr(info, "db_name") = <<>>
    \/ GetStr(info, "db_user") = <<>>
    \/ "db_password" \notin DOMAIN info

\* Lines 262-270: site_info, "Site not found", the fields of the record
WpBegin(p, primary, dry_run) ==
    /\ pc[p] = "idle"
    /\ calls < MaxCalls
    /\ calls' = calls + 1
    /\ stateDir' = TRUE
    /\ LET st == load_state(stateFile)
           data == get_site_state(SitesOf(st, defaultSites[p]), primary)
           info == IF Truthy(data) THEN data @@ [primary_domain |-> primary] ELSE None
           l == [InitLoc EXCEPT !.op = "wp_install", !.primary_domain = primary,
                                !.dry_run = dry_run, !.pre = World,
                                !.pre_default = defaultSites[p],
                                !.loaded = SitesOf(st, defaultSites[p]),
                                !.info = info]
       IN  IF ~Truthy(data)
           THEN /\ loc' = [loc EXCEPT ![p] = WpExit(l, "Site not found")]
                /\ pc' = [pc EXCEPT ![p] = "done"]
           ELSE /\ loc' = [loc EXCEPT ![p] = l]
                /\ pc' = [pc EXCEPT ![p] =
                       IF WpNeedsDatabase(info) THEN "wp_database" ELSE "wp_files"]
    /\ UNCHANGED <<dirs, osUsers, dbs, dbUsers, confs, stateFile, defaultSites, faults, last>>

\* Lines 271-275: database.create_database(primary_domain.replace(".", "_")[:64])
WpDatabase(p) ==
    /\ pc[p] = "wp_database"
    /\ LET l == loc[p]
           name == db_name_from_domain(l.primary_domain)
           valid == validate_identifier(name)
           password == generate_password
           runs == valid /\ ~l.dry_run
       IN  \E o \in (IF runs THEN Outcomes(CreateDbFailures) ELSE {"ok"}) :
             /\ CountFault(o)
             /\ dbs' = IF runs THEN DbsAfterCreate(o, name) ELSE dbs
             /\ dbUsers' = IF runs THEN DbUsersAfterCreate(o, name, password) ELSE dbUsers
             /\ IF ~valid
                THEN /\ loc' = [loc EXCEPT ![p] = WpExit(l, "database name")]
                     /\ pc' = [pc EXCEPT ![p] = "done"]
                ELSE IF o # "ok"
                THEN /\ loc' = [loc EXCEPT ![p] =
                             WpExit(Logged(l, <<"create_database">>), "create_database")]
                     /\ pc' = [pc EXCEPT ![p] = "done"]
                ELSE /\ loc' = [loc EXCEPT ![p] =
                             [(IF runs THEN Logged(l, <<"create_database">>) ELSE l)
                                EXCEPT !.db_name = name, !.db_user_val = name,
                                       !.db_pass_val = password]]
                     /\ pc' = [pc EXCEPT ![p] = "wp_state"]
    /\ UNCHANGED <<dirs, osUsers, confs, stateDir, stateFile, defaultSites, calls, last>>

\* Lines 276-283: load_state, the database fields put into info,
\* set_site_state, save_state unless dry_run
WpState(p) ==
    /\ pc[p] = "wp_state"
    /\ LET l == loc[p]
           st == load_state(stateFile)
           info == [db_name |-> l.db_name, db_user |-> l.db_user_val,
                    db_password |-> l.db_pass_val] @@ l.info
           sites == set_site_state(SitesOf(st, defaultSites[p]), l.primary_domain, info)
           l1 == [l EXCEPT !.info = info, !.site_data = info,
                           !.state = [st EXCEPT !.sites = IF st.shared THEN @ ELSE sites]]
       IN  \E o \in (IF l.dry_run THEN {"ok"} ELSE Outcomes(SaveFailures)) :
             /\ CountFault(o)
             /\ defaultSites' = IF st.shared
                                THEN [defaultSites EXCEPT ![p] = sites]
                                ELSE defaultSites
             /\ stateFile' = IF l.dry_run THEN stateFile
                             ELSE FileAfterSave(o, sites, st.version)
             /\ IF o = "ok"
                THEN /\ loc' = [loc EXCEPT ![p] =
                             IF l.dry_run THEN l1 ELSE Logged(l1, <<"save_state">>)]
                     /\ pc' = [pc EXCEPT ![p] = "wp_files"]
                ELSE /\ loc' = [loc EXCEPT ![p] =
                             WpExit(Logged(l1, <<"save_state">>), "save_state")]
                     /\ pc' = [pc EXCEPT ![p] = "done"]
    /\ UNCHANGED <<dirs, osUsers, dbs, dbUsers, confs, stateDir, calls, last>>

\* Lines 284-291: wordpress.install_wordpress(path, ...)
WpFiles(p) ==
    /\ pc[p] = "wp_files"
    /\ LET l == loc[p]
           path == l.info["path"]
           l1 == [l EXCEPT !.wp_args = <<GetStr(l.info, "db_name"), GetStr(l.info, "db_user"),
                                         l.info["db_password"]>>]
       IN  \E o \in (IF l.dry_run THEN {"ok"} ELSE Outcomes({"fail"})) :
             /\ CountFault(o)
             /\ dirs' = IF l.dry_run THEN dirs ELSE dirs \cup {path}
             /\ loc' = [loc EXCEPT ![p] =
                     CASE l.dry_run -> [l1 EXCEPT !.result = "returned"]
                       [] o = "ok" -> [Logged(l1, <<"install_wordpress">>)
                                         EXCEPT !.result = "returned"]
                       [] OTHER -> WpExit(Logged(l1, <<"install_wordpress">>),
                                          "install_wordpress")]
             /\ pc' = [pc EXCEPT ![p] = "done"]
    /\ UNCHANGED <<osUsers, dbs, dbUsers, confs, stateDir, stateFile, defaultSites, calls, last>>

\* add_site, delete_site and "wordpress install" for two domains.
WpAddInputs ==
    {[primary |-> d, aliases |-> <<>>, app |-> a, create_user |-> FALSE,
      force |-> f, dry_run |-> FALSE] :
        d \in {ACo, ACoUpper}, a \in {NoneStr, "wordpress"}, f \in BOOLEAN}

WpDelInputs == {[primary |-> d, dry_run |-> FALSE] : d \in {ACo, ACoUpper}}

WpInputs == {[primary |-> d, dry_run |-> x] : d \in {ACo, ACoUpper}, x \in BOOLEAN}

NextWp ==
    \E p \in Procs :
        \/ \E a \in WpAddInputs :
              AddBegin(p, a.primary, a.aliases, a.app, a.create_user, a.force, a.dry_run)
        \/ AddDirectory(p)
        \/ AddDatabase(p)
        \/ AddWordpress(p)
        \/ AddCaddy(p)
        \/ AddState(p)
        \/ RollbackStep(p)
        \/ \E d \in WpDelInputs : DelBegin(p, d.primary, d.dry_run)
        \/ DelDirectory(p)
        \/ DelDatabase(p)
        \/ DelCaddy(p)
        \/ DelState(p)
        \/ \E w \in WpInputs : WpBegin(p, w.primary, w.dry_run)
        \/ WpDatabase(p)
        \/ WpState(p)
        \/ WpFiles(p)
        \/ Return(p)
        \/ ProcessRestart(p)

SpecWp == Init /\ [][NextWp]_vars

\* C14: after any sequence of add_site, delete_site and "wordpress install"
\* from the empty state, every key of the sites mapping of the state file is
\* the primary_domain field of its record.
C14_KeyIsPrimaryDomain ==
    \A k \in DOMAIN PersistedSites(World) :
        PersistedSites(World)[k]["primary_domain"] = k

\* "wordpress install" has written the record of a site that add_site had
\* stored under a domain with a capital letter.
C14_Witness ==
    \E p \in Procs :
        /\ pc[p] = "done"
        /\ loc[p].op = "wp_install"
        /\ loc[p].result = "returned"
        /\ "save_state" \in Range(loc[p].log)
        /\ loc[p].primary_domain = ACoUpper
        /\ ACoUpper \in DOMAIN PersistedSites(World)
        /\ "db_name" \in DOMAIN PersistedSites(World)[ACoUpper]

----
\* add_site called with alias lists.

BCo == <<"b", ".", "c", "o">>

BCoUpper == <<"B", ".", "c", "o">>

CCo == <<"c", ".", "c", "o">>

\* Two aliases in both orders, two aliases equal ignoring case, an alias equal
\* to the primary domain ignoring case, and one equal to it exactly.
AliasLists ==
    {<<>>, <<BCo, CCo>>, <<CCo, BCo>>, <<BCo, BCoUpper>>, <<BCo, ACoUpper>>, <<ACo>>}

AliasAddInputs ==
    {[primary |-> ACo, aliases |-> al, app |-> NoneStr, create_user |-> FALSE,
      force |-> f, dry_run |-> FALSE] : al \in AliasLists, f \in BOOLEAN}

NextAlias ==
    \E p \in Procs :
        \/ \E a \in AliasAddInputs :
              AddBegin(p, a.primary, a.aliases, a.app, a.create_user, a.force, a.dry_run)
        \/ AddDirectory(p)
        \/ AddDatabase(p)
        \/ AddCaddy(p)
        \/ AddState(p)
        \/ RollbackStep(p)
        \/ DelBegin(p, ACo, FALSE)
        \/ DelDirectory(p)
        \/ DelDatabase(p)
        \/ DelCaddy(p)
        \/ DelState(p)
        \/ Return(p)

SpecAlias == Init /\ [][NextAlias]_vars

\* C15: in every record add_site has put into the state file no two aliases
\* are equal ignoring case and no alias is equal ignoring case to the primary
\* domain; and the aliases of the record a call has just saved are the aliases
\* the caller gave, in the caller's order.
C15_AliasInvariant ==
    /\ \A k \in DOMAIN PersistedSites(World) :
          LET al == PersistedSites(World)[k]["aliases"]
          IN  /\ \A i, j \in 1..Len(al) : Lower(al[i]) = Lower(al[j]) => i = j
              /\ \A i \in 1..Len(al) : Lower(al[i]) # Lower(k)
    /\ \A p \in Procs :
          LET l == loc[p]
          IN  (/\ pc[p] = "done"
               /\ l.op = "add"
               /\ l.result = "returned"
               /\ ~l.dry_run)
              => /\ l.primary_domain \in DOMAIN PersistedSites(World)
                 /\ PersistedSites(World)[l.primary_domain]["aliases"] = l.aliases

\* A forced add_site has replaced a record by one with two aliases that are
\* not in alphabetical order.
C15_Witness ==
    \E p \in Procs :
        /\ pc[p] = "done"
        /\ loc[p].op = "add"
        /\ loc[p].result = "returned"
        /\ loc[p].force
        /\ Truthy(loc[p].existing)
        /\ loc[p].aliases = <<CCo, BCo>>
        /\ PersistedSites(World)[ACo]["aliases"] = <<CCo, BCo>>

\* What add_site may call outside the process to build a site.
BuildCalls ==
    {"mkdir", "useradd", "create_database", "install_wordpress", "write_conf",
     "reload", "save_state"}

\* C16: when add_site raises a validation error (an invalid primary domain or
\* alias, a duplicate domain, an invalid database name or OS user name derived
\* from the domain), the call has not created a directory, a user, a database,
\* a proxy config or a state file before.
C16_ValidationFirst ==
    \A p \in Procs :
        LET l == loc[p]
        IN  (/\ l.op = "add"
             /\ l.failure.type = "ValueError"
             /\ l.failure.origin # "Site already exists")
            => Range(l.log) \cap BuildCalls = {}

\* The databases of world w and the records of its state file agree: every
\* database is named by db_name in the record of its domain, and every db_name
\* of a record is a database that exists.
DbConsistent(w) ==
    /\ \A db \in w.dbs :
          \E k \in DOMAIN PersistedSites(w) :
              /\ db_name_from_domain(k) = db
              /\ GetStr(PersistedSites(w)[k], "db_name") = db
    /\ \A k \in DOMAIN PersistedSites(w) :
          "db_name" \in DOMAIN PersistedSites(w)[k]
              => PersistedSites(w)[k]["db_name"] \in w.dbs

\* C17: successful add_site calls (forced re-adds with and without an
\* application included) and delete_site calls keep the databases and the state
\* records in agreement: no database is left that no record names, which a
\* later delete_site would not drop, and no record names a database that does
\* not exist.
C17_DatabasesMatchState ==
    \A p \in Procs :
        LET l == loc[p]
        IN  (/\ pc[p] = "done"
             /\ l.op \in {"add", "delete"}
             /\ ~l.dry_run
             /\ l.result = "returned"
             /\ DbConsistent(l.pre))
            => DbConsistent(World)

----
\* core/caddy.py called directly: write_site_config and remove_site_config for
\* two domains, with and without an alias.

CaddyDomains == {ACo, BCo}

CaddyAliases == {<<>>, <<CCo>>}

\* core/caddy.py lines 40-56: write_site_config(primary_domain, aliases,
\* web_root, dry_run=dry_run)
CaddyWrite(p, primary, aliases, dry_run) ==
    /\ pc[p] = "idle"
    /\ calls < MaxCalls
    /\ calls' = calls + 1
    /\ LET l == [InitLoc EXCEPT !.op = "write_site_config", !.primary_domain = primary,
                                !.aliases = aliases, !.dry_run = dry_run,
                                !.pre = World, !.pre_default = defaultSites[p]]
       IN  \E o \in (IF dry_run THEN {"ok"} ELSE Outcomes(WriteConfFailures)) :
             /\ CountFault(o)
             /\ IF dry_run
                THEN /\ loc' = [loc EXCEPT ![p] = [l EXCEPT !.result = "returned"]]
                     /\ UNCHANGED confs
                ELSE /\ confs' = ConfsAfterWrite(o, primary, aliases, site_path(primary))
                     /\ loc' = [loc EXCEPT ![p] =
                             CASE o = "ok" ->
                                    [Logged(l, <<"write_conf", "reload">>)
                                        EXCEPT !.result = "returned"]
                               [] o = "fail_write" ->
                                    DelRaise(Logged(l, <<"write_conf">>),
                                             "OSError", "write_conf")
                               [] OTHER ->
                                    DelRaise(Logged(l, <<"write_conf", "reload">>),
                                             "CalledProcessError", "reload")]
    /\ pc' = [pc EXCEPT ![p] = "done"]
    /\ UNCHANGED <<dirs, osUsers, dbs, dbUsers, stateDir, stateFile, defaultSites, last>>

\* core/caddy.py lines 59-71: remove_site_config(primary_domain, dry_run=dry_run)
CaddyRemove(p, primary, dry_run) ==
    /\ pc[p] = "idle"
    /\ calls < MaxCalls
    /\ calls' = calls + 1
    /\ LET l == [InitLoc EXCEPT !.op = "remove_site_config", !.primary_domain = primary,
                                !.dry_run = dry_run,
                                !.pre = World, !.pre_default = defaultSites[p]]
           key == get_site_config_path(primary)
       IN  IF dry_run
           THEN /\ loc' = [loc EXCEPT ![p] =
                        [l EXCEPT !.result = "returned",
                                  !.ret = IF key \in DOMAIN confs THEN "True" ELSE "False"]]
                /\ UNCHANGED <<confs, faults>>
           ELSE IF ConfMissing(key)
           THEN /\ loc' = [loc EXCEPT ![p] =
                        [l EXCEPT !.result = "returned", !.ret = "False"]]
                /\ UNCHANGED <<confs, faults>>
           ELSE \E o \in Outcomes(RemoveConfFailures) :
                  /\ CountFault(o)
                  /\ confs' = ConfsAfterRemove(o, key)
                  /\ loc' = [loc EXCEPT ![p] =
                          CASE o = "ok" ->
                                 [Logged(l, <<"unlink_conf", "reload">>)
                                     EXCEPT !.result = "returned", !.ret = "True"]
                            [] o = "fail_unlink" ->
                                 DelRaise(Logged(l, <<"unlink_conf">>),
                                          "OSError", "unlink_conf")
                            [] OTHER ->
                                 DelRaise(Logged(l, <<"unlink_conf", "reload">>),
                                          "CalledProcessError", "reload")]
    /\ pc' = [pc EXCEPT ![p] = "done"]
    /\ UNCHANGED <<dirs, osUsers, dbs, dbUsers, stateDir, stateFile, defaultSites, last>>

NextCaddy ==
    \E p \in Procs :
        \/ \E d \in CaddyDomains, al \in CaddyAliases, dr \in BOOLEAN :
               CaddyWrite(p, d, al, dr)
        \/ \E d \in CaddyDomains, dr \in BOOLEAN : CaddyRemove(p, d, dr)
        \/ Return(p)

SpecCaddy == Init /\ [][NextCaddy]_vars

\* A config file was deleted by the call of l: it was there before and is gone.
ConfDeleted(l) ==
    /\ get_site_config_path(l.primary_domain) \in DOMAIN l.pre.confs
    /\ get_site_config_path(l.primary_domain) \notin DOMAIN confs

\* The config files of the other domains are as they were before the call of l.
OtherConfsUntouched(l) ==
    \A k \in (DOMAIN confs \cup DOMAIN l.pre.confs) \ {get_site_config_path(l.primary_domain)} :
        /\ k \in DOMAIN confs
        /\ k \in DOMAIN l.pre.confs
        /\ confs[k] = l.pre.confs[k]

\* C18: a non-dry-run remove_site_config deletes the domain's config file if it
\* exists, invokes the reload exactly when a file was deleted, returns True
\* exactly when a file was deleted (False otherwise), and leaves the config
\* files of the other domains as they are.
C18_RemoveContract ==
    \A p \in Procs :
        LET l == loc[p]
            key == get_site_config_path(l.primary_domain)
        IN  (pc[p] = "done" /\ l.op = "remove_site_config" /\ ~l.dry_run)
            => /\ ("reload" \in Range(l.log)) <=> ConfDeleted(l)
               /\ l.result = "returned" => ((l.ret = "True") <=> ConfDeleted(l))
               /\ l.result = "returned" => l.ret \in {"True", "False"}
               /\ (l.result = "returned" /\ key \in DOMAIN l.pre.confs) => ConfDeleted(l)
               /\ key \notin DOMAIN l.pre.confs => (l.log = <<>> /\ confs = l.pre.confs)
               /\ OtherConfsUntouched(l)

\* A remove_site_config that deleted the file of one domain while the other
\* domain has a file too.
C18_Witness ==
    \E p \in Procs :
        /\ pc[p] = "done"
        /\ loc[p].op = "remove_site_config"
        /\ ~loc[p].dry_run
        /\ loc[p].ret = "True"
        /\ ConfDeleted(loc[p])
        /\ DOMAIN confs # {}

\* The text write_site_config renders for the arguments of the call of l.
RenderedFor(l) ==
    render_caddy_config(l.primary_domain, l.aliases, site_path(l.primary_domain))

\* C19: a non-dry-run write_site_config that returns leaves the domain's config
\* file holding exactly the text rendered for its arguments, whatever the file
\* held before; the reload is invoked only after the file has been written;
\* and a call that finds the file already holding that text, as after a first
\* call with the same arguments, leaves every config file as it was.
C19_WriteOverwrites ==
    \A p \in Procs :
        LET l == loc[p]
            key == get_site_config_path(l.primary_domain)
        IN  (pc[p] = "done" /\ l.op = "write_site_config" /\ ~l.dry_run)
            => /\ l.result = "returned" =>
                      /\ key \in DOMAIN confs
                      /\ confs[key] = RenderedFor(l)
                      /\ l.log = <<"write_conf", "reload">>
               /\ "reload" \in Range(l.log) =>
                      /\ l.log = <<"write_conf", "reload">>
                      /\ key \in DOMAIN confs
                      /\ confs[key] = RenderedFor(l)
               /\ (/\ l.result = "returned"
                   /\ key \in DOMAIN l.pre.confs
                   /\ l.pre.confs[key] = RenderedFor(l)) => confs = l.pre.confs
               /\ OtherConfsUntouched(l)

\* A second write_site_config with the same arguments as the one that wrote the
\* file.
C19_Witness ==
    \E p \in Procs :
        LET l == loc[p]
            key == get_site_config_path(l.primary_domain)
        IN  /\ pc[p] = "done"
            /\ l.op = "write_site_config"
            /\ ~l.dry_run
            /\ l.result = "returned"
            /\ key \in DOMAIN l.pre.confs
            /\ l.pre.confs[key] = RenderedFor(l)
            /\ confs[key] = RenderedFor(l)

----
\* utils/validators.py validate_domains applied to a primary domain and up to
\* MaxAliases aliases drawn from ValidateStrings.

MaxAliases == 2

\* " a.co": a.co with whitespace in front
SpACo == <<" ">> \o ACo

\* Valid domains equal and unequal ignoring case, one that is valid only after
\* strip(), and a string that is no domain.
ValidateStrings == {ACo, ACoUpper, BCo, SpACo, Bare}

ValidateAliasLists ==
    UNION {[1..n -> ValidateStrings] : n \in 0..MaxAliases}

ValidateInit ==
    /\ dirs = {}
    /\ osUsers = EmptyMap
    /\ dbs = {}
    /\ dbUsers = EmptyMap
    /\ confs = EmptyMap
    /\ stateDir = FALSE
    /\ stateFile = AbsentFile
    /\ defaultSites = [p \in Procs |-> EmptyMap]
    /\ pc = [p \in Procs |-> "validate"]
    /\ \E primary \in ValidateStrings, aliases \in ValidateAliasLists :
           loc = [p \in Procs |->
                     [InitLoc EXCEPT !.op = "validate_domains",
                                     !.primary_domain = primary,
                                     !.aliases = aliases]]
    /\ calls = 0
    /\ faults = 0
    /\ last = NoLast

\* Lines 24-38: ok, err = validate_domains(primary, aliases)
ValidateCall(p) ==
    /\ pc[p] = "validate"
    /\ LET l == loc[p]
       IN  loc' = [loc EXCEPT ![p] =
                       [l EXCEPT !.result = "returned",
                                 !.ret = validate_domains(l.primary_domain, l.aliases)]]
    /\ pc' = [pc EXCEPT ![p] = "done"]
    /\ UNCHANGED <<worldVars, defaultSites, calls, faults, last>>

NextValidate == \E p \in Procs : ValidateCall(p)

SpecValidate == ValidateInit /\ [][NextValidate]_vars

\* The entries validate_domains looks at, in its order: primary, then aliases.
Entries(l) == <<l.primary_domain>> \o l.aliases

\* Entry j of e is a violation: no valid domain, or equal ignoring case to an
\* entry before it.
Violation(e, j) ==
    \/ ~validate_domain(e[j])
    \/ \E i \in 1..(j - 1) : Lower(e[i]) = Lower(e[j])

\* C20: validate_domains looks at primary, then at each alias in order, and
\* reports the first violation: (False, duplicate domain) whenever an entry
\* equals an earlier one ignoring case and no entry before it is invalid, and
\* (True, "") exactly when every entry is a valid domain and all are pairwise
\* distinct ignoring case.
C20_FirstViolation ==
    \A p \in Procs :
        LET l == loc[p]
            e == Entries(l)
            r == l.ret
            bad == {j \in 1..Len(e) : Violation(e, j)}
        IN  (pc[p] = "done" /\ l.op = "validate_domains")
            => /\ r.ok <=> /\ \A j \in 1..Len(e) : validate_domain(e[j])
                           /\ \A i, j \in 1..Len(e) :
                                  i < j => Lower(e[i]) # Lower(e[j])
               /\ r.ok => (r.err = "" /\ bad = {})
               /\ \A j \in 1..Len(e) :
                      (/\ \E i \in 1..(j - 1) : Lower(e[i]) = Lower(e[j])
                       /\ \A k \in 1..(j - 1) : validate_domain(e[k]))
                      => (~r.ok /\ r.err = "Duplicate domain")
               /\ ~r.ok =>
                      \E f \in bad :
                          /\ \A j \in bad : f <= j
                          /\ r.at = f - 1
                          /\ r.err = IF validate_domain(e[f]) THEN "Duplicate domain"
                                     ELSE IF f = 1 THEN "Invalid primary domain"
                                     ELSE "Invalid alias"

\* validate_domains has reported a duplicate for a second alias that equals the
\* primary domain in another case, with a valid alias in between.
C20_Witness ==
    \E p \in Procs :
        /\ pc[p] = "done"
        /\ loc[p].op = "validate_domains"
        /\ loc[p].primary_domain = ACo
        /\ loc[p].aliases = <<BCo, ACoUpper>>
        /\ loc[p].ret = [ok |-> FALSE, err |-> "Duplicate domain", at |-> 2]

----
\* The undo of add_site's rollback().

\* The call that undoes a recorded step outside the process, by the step.
UndoCallOf(step) ==
    CASE step = "caddy" -> "unlink_conf"
      [] step = "database" -> "delete_database"
      [] step = "user" -> "userdel"
      [] step = "directory" -> "rmtree"
      [] OTHER -> ""

\* C21: add_site's rollback goes through exactly the steps recorded in
\* steps_done, in the reverse of the order they were recorded (proxy-config
\* removal, then database drop, then OS-user deletion, then removal of the site
\* directory), and no undo is called for a step that was never recorded.
C21_ReverseUndo ==
    \A p \in Procs :
        LET l == loc[p]
            names == StepNames(l)
            n == Len(names)
            undo == {UndoCallOf(x) : x \in Range(AddSteps)} \ {""}
        IN  (l.op = "add" /\ pc[p] \in {"rollback", "done"})
            => /\ Len(l.undone) <= n
               /\ \A i \in 1..Len(l.undone) : l.undone[i] = names[n + 1 - i]
               /\ pc[p] = "rollback" => l.rb = n - Len(l.undone)
               /\ (pc[p] = "done" /\ l.result = "raised" /\ ~l.dry_run)
                      => Len(l.undone) = n
               /\ \A x \in Range(AddSteps) :
                      (UndoCallOf(x) # "" /\ UndoCallOf(x) \in Range(l.log))
                          => x \in Range(l.undone)
               /\ \A i, j \in 1..Len(l.log) :
                      (i < j /\ l.log[i] \in undo /\ l.log[j] \in undo)
                          => \E a, b \in 1..Len(AddSteps) :
                                 /\ UndoCallOf(AddSteps[a]) = l.log[i]
                                 /\ UndoCallOf(AddSteps[b]) = l.log[j]
                                 /\ a > b

\* A rollback that has undone proxy config, database, account and directory.
C21_Witness ==
    \E p \in Procs :
        /\ pc[p] = "done"
        /\ loc[p].op = "add"
        /\ loc[p].result = "raised"
        /\ loc[p].undone = <<"caddy", "database", "user", "directory">>
        /\ {"unlink_conf", "delete_database", "userdel", "rmtree"} \subseteq Range(loc[p].log)

\* C22: when the proxy-config step raises after the file was written (the
\* reload fails) or the database step raises inside create_database (after
\* CREATE DATABASE, at the user creation or the grant), and every undo the
\* rollback runs succeeds, then no proxy config file and no database of the
\* domain remain that were not there before the call.
C22_PartialStepsUndone ==
    \A p \in Procs :
        LET l == loc[p]
        IN  (/\ pc[p] = "done"
             /\ l.op = "add"
             /\ ~l.dry_run
             /\ l.result = "raised"
             /\ l.failure.origin \in {"reload", "create_database"}
             /\ l.rb_failed = <<>>
             /\ db_name_from_domain(l.primary_domain) \notin l.pre.dbs
             /\ get_site_config_path(l.primary_domain) \notin DOMAIN l.pre.confs)
            => /\ db_name_from_domain(l.primary_domain) \notin dbs
               /\ get_site_config_path(l.primary_domain) \notin DOMAIN confs

\* The record of domain d in world w, if it has one, names things that exist:
\* the directory of its path, the database of its db_name and the proxy config
\* file of the domain.
RecordBacked(w, d) ==
    d \in DOMAIN PersistedSites(w)
        => /\ site_path(d) \in w.dirs
           /\ "db_name" \in DOMAIN PersistedSites(w)[d]
                  => PersistedSites(w)[d]["db_name"] \in w.dbs
           /\ get_site_config_path(d) \in DOMAIN w.confs

\* C23: when add_site with force=True fails for a domain that has a state
\* record with its directory, database and proxy config in place, then after
\* the rollback the record that remains in the state file still names a
\* directory, a database and a proxy config file that exist.
C23_FailedForceKeepsSite ==
    \A p \in Procs :
        LET l == loc[p]
        IN  (/\ pc[p] = "done"
             /\ l.op = "add"
             /\ l.force
             /\ ~l.dry_run
             /\ l.result = "raised"
             /\ l.primary_domain \in DOMAIN PersistedSites(l.pre)
             /\ RecordBacked(l.pre, l.primary_domain))
            => RecordBacked(World, l.primary_domain)

\* C24: a non-dry-run add_site without force for a valid domain that has no
\* state record but whose site directory exists fails at the directory step
\* with FileExistsError, undoes nothing, leaves the directory in place and
\* creates no OS user, database, proxy config or state record.
C24_NoReuseWithoutForce ==
    \A p \in Procs :
        LET l == loc[p]
        IN  (/\ pc[p] \notin {"idle", "directory"}
             /\ l.op = "add"
             /\ ~l.dry_run
             /\ ~l.force
             /\ validate_domains(l.primary_domain, l.aliases).ok
             /\ ~Truthy(l.existing)
             /\ l.primary_domain \notin DOMAIN PersistedSites(l.pre)
             /\ site_path(l.primary_domain) \in l.pre.dirs)
            => /\ pc[p] = "done"
               /\ l.result = "raised"
               /\ l.error = [type |-> "FileExistsError", origin |-> "mkdir"]
               /\ l.steps_done = <<>>
               /\ l.undone = <<>>
               /\ l.log = <<"mkdir">>
               /\ dirs = l.pre.dirs
               /\ osUsers = l.pre.osUsers
               /\ dbs = l.pre.dbs
               /\ dbUsers = l.pre.dbUsers
               /\ confs = l.pre.confs
               /\ stateFile = l.pre.stateFile

\* An add_site without force that has met the directory of a domain without
\* record and has raised.
C24_Witness ==
    \E p \in Procs :
        /\ pc[p] = "done"
        /\ loc[p].op = "add"
        /\ ~loc[p].dry_run
        /\ ~loc[p].force
        /\ ~Truthy(loc[p].existing)
        /\ loc[p].primary_domain \notin DOMAIN PersistedSites(loc[p].pre)
        /\ site_path(loc[p].primary_domain) \in loc[p].pre.dirs
        /\ loc[p].error = [type |-> "FileExistsError", origin |-> "mkdir"]
        /\ site_path(loc[p].primary_domain) \in dirs

\* C25: an add_site called with dry_run=True that fails invokes no undo (no
\* proxy-config removal, no database drop, no OS-user deletion, no directory
\* removal), whatever steps it had recorded, and the error of the failed step
\* is the one that propagates.
C25_DryRunNoRollback ==
    \A p \in Procs :
        LET l == loc[p]
        IN  (l.op = "add" /\ l.dry_run)
            => /\ pc[p] # "rollback"
               /\ l.undone = <<>>
               /\ l.rb_failed = <<>>
               /\ Range(l.log) \cap {"unlink_conf", "delete_database", "userdel", "rmtree"} = {}
               /\ (pc[p] = "done" /\ l.result = "raised")
                      => (l.error = l.failure /\ l.failure # NoError)

\* A dry-run add_site that recorded the directory step and then failed at the
\* database name.
C25_Witness ==
    \E p \in Procs :
        /\ pc[p] = "done"
        /\ loc[p].op = "add"
        /\ loc[p].dry_run
        /\ loc[p].result = "raised"
        /\ Len(loc[p].steps_done) > 0
        /\ loc[p].error.origin = "database name"
        /\ loc[p].undone = <<>>

\* C26: delete_site removes the record and writes the state file only after
\* the directory removal, the database drop and the proxy-config removal have
\* been performed: whenever the call has touched the state file, the teardown
\* calls that applied are in its log before save_state and the directory, the
\* database and the proxy config file are gone.
C26_DeleteStateLast ==
    \A p \in Procs :
        LET l == loc[p]
            key == get_site_config_path(l.primary_domain)
            db == GetStr(l.site_data, "db_name")
        IN  (/\ l.op = "delete"
             /\ ~l.dry_run
             /\ stateFile # l.pre.stateFile \/ "save_state" \in Range(l.log))
            => /\ pc[p] = "done"
               /\ l.log[Len(l.log)] = "save_state"
               /\ Count(l.log, "save_state") = 1
               /\ site_path(l.primary_domain) \in l.pre.dirs => "rmtree" \in Range(l.log)
               /\ site_path(l.primary_domain) \notin dirs
               /\ (Truthy(l.site_data) /\ db # <<>>)
                      => ("delete_database" \in Range(l.log) /\ db \notin dbs)
               /\ key \in DOMAIN l.pre.confs => "unlink_conf" \in Range(l.log)
               /\ key \notin DOMAIN confs

\* A delete_site that has removed directory, database and proxy config and
\* then the record.
C26_Witness ==
    \E p \in Procs :
        /\ pc[p] = "done"
        /\ loc[p].op = "delete"
        /\ loc[p].result = "returned"
        /\ loc[p].log = <<"rmtree", "delete_database", "unlink_conf", "reload", "save_state">>
        /\ loc[p].primary_domain \in DOMAIN PersistedSites(loc[p].pre)
        /\ loc[p].primary_domain \notin DOMAIN PersistedSites(World)

\* What delete_site does for a domain without record, in the call with locals
\* l: it ends without an error of its own, drops no database, and a call that
\* returns has removed the directory and the proxy config file that existed
\* and has reloaded the proxy exactly when it removed a config file.
NoRecordTeardown(p) ==
    LET l == loc[p]
        key == get_site_config_path(l.primary_domain)
    IN  /\ l.result = "raised"
              => l.failure.origin \in {"rmtree", "unlink_conf", "reload", "save_state"}
        /\ "delete_database" \notin Range(l.log)
        /\ dbs = l.pre.dbs
        /\ dbUsers = l.pre.dbUsers
        /\ ("reload" \in Range(l.log))
              <=> (key \in DOMAIN l.pre.confs /\ key \notin DOMAIN confs)
        /\ l.result = "returned" =>
              /\ site_path(l.primary_domain) \notin dirs
              /\ key \notin DOMAIN confs
              /\ site_path(l.primary_domain) \in l.pre.dirs => "rmtree" \in Range(l.log)

\* The records of the sites other than d are the same in worlds v and w.
OtherRecordsSame(v, w, d) ==
    /\ DOMAIN PersistedSites(v) \ {d} = DOMAIN PersistedSites(w) \ {d}
    /\ \A k \in DOMAIN PersistedSites(v) \ {d} : PersistedSites(v)[k] = PersistedSites(w)[k]

\* C27 as stated: delete_site for a domain that has no state record removes
\* the directory and the proxy config file if they exist, reloads only if a
\* config file was removed, drops no database, completes without raising, and
\* leaves the records of all other sites unchanged.
C27_DeleteWithoutRecord ==
    \A p \in Procs :
        (/\ pc[p] = "done"
         /\ loc[p].op = "delete"
         /\ ~loc[p].dry_run
         /\ ~Truthy(loc[p].site_data)
         /\ loc[p].primary_domain \notin DOMAIN PersistedSites(loc[p].pre))
        => /\ NoRecordTeardown(p)
           /\ loc[p].result = "returned"
                  => OtherRecordsSame(loc[p].pre, World, loc[p].primary_domain)

\* Every record of world w that stores database credentials stores the
\* password its database user has in the engine.
PasswordsMatch(w) ==
    \A k \in DOMAIN PersistedSites(w) :
        "db_password" \in DOMAIN PersistedSites(w)[k]
            => /\ PersistedSites(w)[k]["db_user"] \in DOMAIN w.dbUsers
               /\ w.dbUsers[PersistedSites(w)[k]["db_user"]]
                      = PersistedSites(w)[k]["db_password"]

\* C28: in a run where no external operation has failed, a successful
\* add_site, a forced re-add with app=wordpress of a site whose database user
\* exists included, leaves in the state record the password that the database
\* user has in the engine.
C28_PasswordMatchesEngine ==
    \A p \in Procs :
        LET l == loc[p]
        IN  (/\ pc[p] = "done"
             /\ l.op = "add"
             /\ ~l.dry_run
             /\ l.result = "returned"
             /\ faults = 0
             /\ PasswordsMatch(l.pre))
            => PasswordsMatch(World)

\* C29: in every successful add_site with app=wordpress the database name,
\* user and password handed to install_wordpress are the db_name, db_user and
\* db_password of the record the call builds and, unless dry_run, commits; they
\* are the values of the one database step of the call, whose name and user
\* are recorded in steps_done and whose password a newly created database user
\* has in the engine.
C29_InstallerSharesCredentials ==
    \A p \in Procs :
        LET l == loc[p]
            d == l.site_data
            dbstep == {i \in 1..Len(l.steps_done) : l.steps_done[i].name = "database"}
        IN  (/\ pc[p] = "done"
             /\ l.op = "add"
             /\ l.app = "wordpress"
             /\ l.result = "returned")
            => /\ {"db_name", "db_user", "db_password"} \subseteq DOMAIN d
               /\ l.wp_args = <<d["db_name"], d["db_user"], d["db_password"]>>
               /\ Cardinality(dbstep) = 1
               /\ \A i \in dbstep : l.steps_done[i].a = l.wp_args[1]
                                    /\ l.steps_done[i].b = l.wp_args[2]
               /\ l.wp_args[3] = l.db_pass_val
               /\ ~l.dry_run =>
                      /\ Count(l.log, "create_database") = 1
                      /\ l.primary_domain \in DOMAIN PersistedSites(World)
                      /\ PersistedSites(World)[l.primary_domain] = d
                      /\ l.wp_args[2] \notin DOMAIN l.pre.dbUsers
                             => dbUsers[l.wp_args[2]] = l.wp_args[3]

\* A non-dry-run add_site with app=wordpress has returned.
C29_Witness ==
    \E p \in Procs :
        /\ pc[p] = "done"
        /\ loc[p].op = "add"
        /\ loc[p].app = "wordpress"
        /\ ~loc[p].dry_run
        /\ loc[p].result = "returned"
        /\ Len(loc[p].wp_args) = 3
        /\ "install_wordpress" \in Range(loc[p].log)

----
\* Two processes, each running add_site for a domain of its own: load_state and
\* save_state (utils/state.py lines 20-41) take no lock, so the steps of the
\* two calls interleave freely.

RaceProcs == {1, 2}

\* The domain process p adds.
RaceDomain(p) == IF p = 1 THEN ACo ELSE BCo

RaceInit ==
    /\ dirs = {}
    /\ osUsers = EmptyMap
    /\ dbs = {}
    /\ dbUsers = EmptyMap
    /\ confs = EmptyMap
    /\ stateDir = FALSE
    /\ stateFile = AbsentFile
    /\ defaultSites = [p \in RaceProcs |-> EmptyMap]
    /\ pc = [p \in RaceProcs |-> "idle"]
    /\ loc = [p \in RaceProcs |-> InitLoc]
    /\ calls = 0
    /\ faults = 0
    /\ last = NoLast

NextRace ==
    \E p \in RaceProcs :
        \/ AddBegin(p, RaceDomain(p), <<>>, NoneStr, FALSE, FALSE, FALSE)
        \/ AddDirectory(p)
        \/ AddDatabase(p)
        \/ AddCaddy(p)
        \/ AddState(p)
        \/ RollbackStep(p)
        \/ Return(p)

SpecRace == RaceInit /\ [][NextRace]_vars

\* Both processes have returned from add_site, and each had loaded the state
\* before the other saved it: neither saw the other's record.
BothLoadedFirst ==
    /\ \A p \in RaceProcs :
           /\ pc[p] = "done"
           /\ loc[p].op = "add"
           /\ loc[p].result = "returned"
    /\ RaceDomain(2) \notin DOMAIN loc[1].loaded
    /\ RaceDomain(1) \notin DOMAIN loc[2].loaded

\* C30: when two add_site calls for two domains run in two processes and both
\* load the state before either saves, both return and the state file ends up
\* with the record of only one of them, while the directories, databases and
\* proxy configs of both sites exist.
C30_LostUpdate ==
    BothLoadedFirst
        => /\ Cardinality(DOMAIN PersistedSites(World) \cap {RaceDomain(1), RaceDomain(2)}) = 1
           /\ \A p \in RaceProcs :
                  /\ site_path(RaceDomain(p)) \in dirs
                  /\ db_name_from_domain(RaceDomain(p)) \in dbs
                  /\ get_site_config_path(RaceDomain(p)) \in DOMAIN confs

\* Both calls have returned and the state file holds b.co alone.
C30_Witness ==
    /\ BothLoadedFirst
    /\ DOMAIN PersistedSites(World) = {BCo}
    /\ {site_path(ACo), site_path(BCo)} \subseteq dirs
    /\ {db_name_from_domain(ACo), db_name_from_domain(BCo)} \subseteq dbs

\* C31: delete_site leaves the OS users as they are in every state of the
\* call, also for a record that has a linux_user field; no userdel is called,
\* so the account add_site created with create_user outlives its site and its
\* state record.
C31_DeleteKeepsOsUsers ==
    \A p \in Procs :
        loc[p].op = "delete"
            => /\ osUsers = loc[p].pre.osUsers
               /\ "userdel" \notin Range(loc[p].log)

\* A delete_site has removed directory and record of a site whose record named
\* a linux_user, and the account is still there.
C31_Witness ==
    \E p \in Procs :
        LET l == loc[p]
        IN  /\ pc[p] = "done"
            /\ l.op = "delete"
            /\ ~l.dry_run
            /\ l.result = "returned"
            /\ l.primary_domain \in DOMAIN PersistedSites(l.pre)
            /\ "linux_user" \in DOMAIN PersistedSites(l.pre)[l.primary_domain]
            /\ PersistedSites(l.pre)[l.primary_domain]["linux_user"] \in DOMAIN osUsers
            /\ l.primary_domain \notin DOMAIN PersistedSites(World)
            /\ site_path(l.primary_domain) \notin dirs

====
